---- MODULE Spec2Model ----
(***************************************************************************)
(* A model of the rusty-systems L-system engine: tokens and their          *)
(* interning (system.rs, tokens.rs), production heads, bodies and          *)
(* productions (productions.rs), the production store and the derivation   *)
(* engine (system.rs).                                                     *)
(*                                                                         *)
(* Indices are 0-based as in the source; TLA+ sequences are 1-based, so    *)
(* position i of a ProductionString s is s[i + 1].                         *)
(***************************************************************************)
EXTENDS Integers, Sequences, FiniteSets, TLC

VARIABLES
    \* ProductionHead::matches applied to drawn inputs
    mHead, mString, mIndex, mResult,
    \* Production::body applied to a drawn production and a drawn random value
    bProd, bRandom, bResult,
    \* System { tokens, token_id } of each System instance, the RwLock around
    \* tokens, and the threads calling add_token / get_token
    tokens, token_id, tokLock, tpc, tCall, tRet,
    \* System { productions: RwLock<Vec<Production>> } of one System instance
    \* and the threads calling add_production / derive_once / derive
    productions, prodLock, pc, call, ret,
    \* a text handed to a parsing function of system/parser.rs or to
    \* System::parse_prod_string, and what the call returned
    pText, pRet,
    \* a TokenIterator { text, current }, the items its next() has returned,
    \* and ParseStack { stack, iterator } around it with what parse() returned
    iterator, yielded, stack, sResult,
    \* a RefCell<Vec<Production>> used as the production store
    cell

matchVars == << mHead, mString, mIndex, mResult >>

bodyVars == << bProd, bRandom, bResult >>

tokVars == << tokens, token_id, tokLock, tpc, tCall, tRet >>

sysVars == << productions, prodLock, pc, call, ret >>

parseVars == << pText, pRet >>

lexVars == << iterator, yielded, stack, sResult >>

cellVars == << cell >>

vars == << mHead, mString, mIndex, mResult, bProd, bRandom, bResult,
           tokens, token_id, tokLock, tpc, tCall, tRet,
           productions, prodLock, pc, call, ret, pText, pRet,
           iterator, yielded, stack, sResult, cell >>

\* the variables an action of one part of the model leaves alone
notMatchVars == << bodyVars, tokVars, sysVars, parseVars, lexVars, cellVars >>

notBodyVars == << matchVars, tokVars, sysVars, parseVars, lexVars, cellVars >>

notTokVars == << matchVars, bodyVars, sysVars, parseVars, lexVars, cellVars >>

notSysVars == << matchVars, bodyVars, tokVars, parseVars, lexVars, cellVars >>

----------------------------------------------------------------------------
(* Bounds of the model *)

\* longest ProductionString drawn as an input of matches
MaxLen == 3

\* longest pre- / post-context drawn as an input of matches
MaxCtx == 2

\* most bodies of one production
MaxBodies == 2

\* most iterations asked of one derive call
MaxIter == 2

\* Chances and random values are multiples of 1 / ChanceUnits: the chance
\* k stands for the f32 k / ChanceUnits, ChanceUnits for 1.0.
ChanceUnits == 4

----------------------------------------------------------------------------
(* tokens.rs: Token { kind, code } *)

Terminal == "Terminal"

ProductionKind == "Production"

Token(kind, code) == [kind |-> kind, code |-> code]

is_terminal(token) == token.kind = Terminal

is_production(token) == token.kind = ProductionKind

\* Option<ProductionString>: None, Some(string)
None == [some |-> FALSE, val |-> << >>]

Some(string) == [some |-> TRUE, val |-> string]

----------------------------------------------------------------------------
(* Sequence helpers *)

\* all sequences over S of length 0..n
SeqUpTo(S, n) == UNION { [1..k -> S] : k \in 0..n }

\* F of a value that is computed once, however often F uses it
With(value, F(_)) == CHOOSE r \in { F(v) : v \in {value} } : TRUE

\* iter().rev()
Reverse(s) == [i \in 1..Len(s) |-> s[Len(s) + 1 - i]]

----------------------------------------------------------------------------
(* productions.rs: ProductionHead { pre, target, post } *)

ProductionHead(pre, target, post) == [pre |-> pre, target |-> target, post |-> post]

\* The outcome of a call that may panic: "true", "false" or "panic".
Bool(b) == IF b THEN "true" ELSE "false"

\* ProductionHead::pre_matches. string.symbols()[0..index] panics when index
\* is beyond the end of the string.
pre_matches_rev(head, string, index) ==
    IF head.pre = None THEN "true"
    ELSE LET left == head.pre.val IN
         IF index = 0 THEN Bool(Len(left) = 0)
         ELSE IF index > Len(string) THEN "panic"
         ELSE LET symbols == Reverse(SubSeq(string, 1, index)) IN
              IF Len(symbols) < Len(left) THEN "false"
              ELSE Bool(\A i \in 1..Len(left) : left[i] = symbols[i])

pre_matches(head, string, index) ==
    IF head.pre = None THEN "true"
    ELSE LET left == head.pre.val IN
         IF index = 0 THEN Bool(Len(left) = 0)
         ELSE IF index > Len(string) THEN "panic"
         ELSE LET symbols == Reverse(SubSeq(string, 1, index)) IN
              IF Len(symbols) < Len(left) THEN "false"
              ELSE Bool(\A i \in 1..Len(left) : Reverse(left)[i] = symbols[i])

\* ProductionHead::post_matches. string.len() - 1 on the empty string
\* overflows: a panic in a debug build; in a release build it wraps to
\* usize::MAX, which no modelled index equals, and the slice
\* string.symbols()[index + 1 ..] then panics (index + 1 > 0). Either build
\* panics.
post_matches(head, string, index) ==
    IF head.post = None THEN "true"
    ELSE LET right == head.post.val IN
         IF Len(string) = 0 THEN "panic"
         ELSE IF index = Len(string) - 1 THEN Bool(Len(right) = 0)
         ELSE IF index + 1 > Len(string) THEN "panic"
         ELSE LET symbols == SubSeq(string, index + 2, Len(string)) IN
              IF Len(symbols) < Len(right) THEN "false"
              ELSE Bool(\A i \in 1..Len(right) : right[i] = symbols[i])

\* matches with the contexts of the head ignored
matches_target_only(head, string, index) ==
    IF index < Len(string) THEN Bool(head.target = string[index + 1]) ELSE "false"

\* ProductionHead::matches: pre_matches && post_matches && target test,
\* evaluated left to right with short circuit.
matches(head, string, index) ==
    LET p == pre_matches(head, string, index) IN
    IF p # "true" THEN p
    ELSE LET q == post_matches(head, string, index) IN
         IF q # "true" THEN q
         ELSE IF index < Len(string)
              THEN Bool(head.target = string[index + 1])
              ELSE "false"

----------------------------------------------------------------------------
(* productions.rs: Chance, ProductionBody, Production *)

\* Chance::empty(): kind Derived, chance None
Derived == [kind |-> "Derived", chance |-> 0]

\* Chance::new(chance): kind Set, chance Some(chance); asserts 0 < chance <= 1
ChanceSet(chance) == [kind |-> "Set", chance |-> chance]

is_derived(chance) == chance.kind = "Derived"

is_user_set(chance) == chance.kind = "Set"

\* Chance::unwrap_or
unwrap_or(chance, default) == IF chance.kind = "Set" THEN chance.chance ELSE default

ProductionBody(string, chance) == [string |-> string, chance |-> chance]

\* Production { head, body: Vec<ProductionBody> }
Production(head, bodies) == [head |-> head, body |-> bodies]

\* Result<T>
Ok(value) == [ok |-> TRUE, value |-> value, kind |-> "none"]

Err(kind) == [ok |-> FALSE, value |-> 0, kind |-> kind]

RECURSIVE SumChance(_)
\* self.body.iter().map(|b| b.chance.unwrap_or(0.0)).sum()
SumChance(bodies) ==
    IF Len(bodies) = 0 THEN 0
    ELSE unwrap_or(bodies[1].chance, 0) + SumChance(Tail(bodies))

\* the count of all bodies, derived or not
CountAll(bodies) == Len(bodies)

\* self.body.iter().filter(|b| b.chance.is_derived()).count()
CountDerived(bodies) == Cardinality({ i \in 1..Len(bodies) : is_derived(bodies[i].chance) })

RECURSIVE Cumulative(_, _, _, _)
\* The value of `current` after the first n bodies have been added, times
\* scale: default_chance = (1 - total) / remaining is not a multiple of
\* 1 / ChanceUnits, so both sides of `random < current` are multiplied by
\* scale = remaining (1 when there is no derived body).
Cumulative(bodies, n, total, scale) ==
    IF n = 0 THEN 0
    ELSE Cumulative(bodies, n - 1, total, scale)
         + (IF bodies[n].chance.kind = "Set"
            THEN bodies[n].chance.chance * scale
            ELSE ChanceUnits - total)

\* Production::body with the total-chance test left out
body_unchecked(production, random) ==
    LET bodies == production.body IN
    IF Len(bodies) = 0 THEN Err("Execution")
    ELSE IF Len(bodies) = 1 THEN Ok(Len(bodies))
    ELSE LET total_chance == SumChance(bodies)
             remaining == CountDerived(bodies)
             scale == IF remaining = 0 THEN 1 ELSE remaining
             hits == { i \in 1..Len(bodies) :
                         random * scale < Cumulative(bodies, i, total_chance, scale) }
         IN IF hits # {}
            THEN Ok(CHOOSE i \in hits : \A j \in hits : i <= j)
            ELSE Ok(Len(bodies))

\* Production::body. `random` is the value thread_rng().gen_range(0.0..=1.0)
\* returns. The value of Ok is the position (1-based) of the returned body in
\* the body list. f32 rounding is not modelled: chances are exact.
body(production, random) ==
    LET bodies == production.body IN
    IF Len(bodies) = 0 THEN Err("Execution")
    ELSE IF Len(bodies) = 1 THEN Ok(Len(bodies))
    ELSE LET total_chance == SumChance(bodies) IN
         IF total_chance < 0 THEN Err("Execution")
         ELSE IF total_chance > ChanceUnits THEN Err("Execution")
         ELSE LET remaining == CountDerived(bodies)
                  scale == IF remaining = 0 THEN 1 ELSE remaining
                  hits == { i \in 1..Len(bodies) :
                              random * scale < Cumulative(bodies, i, total_chance, scale) }
              IN IF hits # {}
                 THEN Ok(CHOOSE i \in hits : \A j \in hits : i <= j)
                 ELSE Ok(Len(bodies))

----------------------------------------------------------------------------
(* Inputs of the matches harness *)

\* Three tokens as System::add_token creates them.
SymF == Token(ProductionKind, 100)

SymG == Token(ProductionKind, 101)

SymS == Token(Terminal, 102)

MatchAlphabet == {SymF, SymG}

MatchContexts == {None} \cup { Some(c) : c \in SeqUpTo(MatchAlphabet, MaxCtx) }

MatchHeads ==
    { ProductionHead(pre, target, post) :
        pre \in MatchContexts, target \in MatchAlphabet, post \in MatchContexts }

MatchInit ==
    /\ mHead \in MatchHeads
    /\ mString \in SeqUpTo(MatchAlphabet, MaxLen)
    /\ mIndex = -1
    /\ mResult = "none"

\* head.matches(&string, index) for an index up to one past the end
Match(index) ==
    /\ mIndex' = index
    /\ mResult' = matches(mHead, mString, index)
    /\ UNCHANGED << mHead, mString >>
    /\ UNCHANGED notMatchVars

MatchNext == \E index \in 0..Len(mString) : Match(index)

----------------------------------------------------------------------------
(* Inputs of the body-selection harness *)

\* the chances a body can carry: derived, or set to a value in (0, 1]
Chances == {Derived} \cup { ChanceSet(c) : c \in 1..ChanceUnits }

BodyInputs == { ProductionBody(string, chance) : string \in {<< >>, << SymF >>}, chance \in Chances }

\* a production holds at least one body (Production::new) and only gains
\* bodies (add_body)
BodyLists == UNION { [1..k -> BodyInputs] : k \in 1..MaxBodies }

BodyInit ==
    /\ bProd \in { Production(ProductionHead(None, SymF, None), bodies) : bodies \in BodyLists }
    /\ bRandom = -1
    /\ bResult = Err("none")

\* production.body() with the random value drawn in 0.0..=1.0
SelectBody(random) ==
    /\ bRandom' = random
    /\ bResult' = body(bProd, random)
    /\ UNCHANGED bProd
    /\ UNCHANGED notBodyVars

BodyNext == \E random \in 0..ChanceUnits : SelectBody(random)

----------------------------------------------------------------------------
(* system.rs: System { tokens: RwLock<HashMap<String, Token>>, token_id },  *)
(* impl TokenStore for System                                               *)

\* the threads that share the System instances
Threads == {"t1", "t2"}

\* the System instances of the process
Systems == {"s1", "s2"}

\* A name (a Rust String) is the sequence of its characters, every
\* character a string of length one.
NameOne == << "o", "n", "e" >>

NameTwo == << "T", "w", "o" >>

\* the names interned; the empty name is rejected by add_token
Names == {NameOne, NameTwo}

Kinds == {Terminal, ProductionKind}

\* System::new: token_id: AtomicU32::new(100)
TokenIdStart == 100

\* RwLock: no thread holds it, no writer has panicked with it
Unlocked == [writer |-> "none", readers |-> {}, poisoned |-> FALSE]

\* read() / write() return Err(PoisonError): a writer panicked holding the lock
is_poisoned(lock) == lock.poisoned

\* the outcome of a call that panics
Panic == [ok |-> FALSE, value |-> 0, kind |-> "panic"]

\* RwLock::write with every other holder ignored
write_unguarded(lock) == TRUE

\* RwLock::write returns once no thread holds the lock
write_available(lock) == lock.writer = "none" /\ lock.readers = {}

\* RwLock::read returns once no writer holds the lock
read_available(lock) == lock.writer = "none"

\* map.get(name) that never finds an entry
get_miss(map, name) == FALSE

\* map.get(name) is Some
get_some(map, name) == name \in DOMAIN map

\* fetch_add that adds nothing
fetch_add_zero(id) == id

\* the value of token_id after fetch_add(1, SeqCst); the model stays far
\* below u32::MAX
fetch_add(id) == id + 1

\* map.insert(name, token)
insert(map, name, token) ==
    [n \in DOMAIN map \cup {name} |-> IF n = name THEN token ELSE map[n]]

NoCall == [sys |-> "none", name |-> << >>, kind |-> Terminal]

NoRet == [op |-> "none", sys |-> "none", name |-> << >>, res |-> Err("none")]

TokInit ==
    /\ tokens = [s \in Systems |-> << >>]
    /\ token_id = [s \in Systems |-> TokenIdStart]
    /\ tokLock = [s \in Systems |-> Unlocked]
    /\ tpc = [t \in Threads |-> "idle"]
    /\ tCall = [t \in Threads |-> NoCall]
    /\ tRet = [t \in Threads |-> NoRet]

\* add_token with an empty name: an error of kind General, nothing is locked
AddTokenEmpty(t, s, kind) ==
    /\ tpc[t] = "idle"
    /\ tRet' = [tRet EXCEPT ![t] = [op |-> "add_token", sys |-> s, name |-> << >>, res |-> Err("General")]]
    /\ UNCHANGED << tokens, token_id, tokLock, tpc, tCall >>
    /\ UNCHANGED notTokVars

\* add_token up to `let mut map = self.tokens.write()?`: the thread has the
\* write lock; the result of its last call is gone
AddTokenWrite(t, s, name, kind) ==
    /\ tpc[t] = "idle"
    /\ write_available(tokLock[s])
    /\ IF is_poisoned(tokLock[s])
       THEN \* `?` with From<PoisonError<T>> for Error: kind Locking
            /\ tRet' = [tRet EXCEPT ![t] =
                   [op |-> "add_token", sys |-> s, name |-> name, res |-> Err("Locking")]]
            /\ UNCHANGED << tokLock, tpc, tCall >>
       ELSE /\ tokLock' = [tokLock EXCEPT ![s].writer = t]
            /\ tpc' = [tpc EXCEPT ![t] = "locked"]
            /\ tCall' = [tCall EXCEPT ![t] = [sys |-> s, name |-> name, kind |-> kind]]
            /\ tRet' = [tRet EXCEPT ![t] = NoRet]
    /\ UNCHANGED << tokens, token_id >>
    /\ UNCHANGED notTokVars

\* `if let Some(value) = map.get(name) { return Ok(*value); }`: the return
\* drops the guard
AddTokenGet(t) ==
    /\ tpc[t] = "locked"
    /\ LET s == tCall[t].sys
           name == tCall[t].name
       IN IF get_some(tokens[s], name)
          THEN /\ tRet' = [tRet EXCEPT ![t] =
                      [op |-> "add_token", sys |-> s, name |-> name, res |-> Ok(tokens[s][name])]]
               /\ tokLock' = [tokLock EXCEPT ![s].writer = "none"]
               /\ tpc' = [tpc EXCEPT ![t] = "idle"]
               /\ tCall' = [tCall EXCEPT ![t] = NoCall]
          ELSE /\ tpc' = [tpc EXCEPT ![t] = "create"]
               /\ UNCHANGED << tRet, tokLock, tCall >>
    /\ UNCHANGED << tokens, token_id >>
    /\ UNCHANGED notTokVars

\* fetch_add, Token::new, map.insert, return Ok(map.get(name).copied().unwrap())
AddTokenCreate(t) ==
    /\ tpc[t] = "create"
    /\ LET s == tCall[t].sys
           name == tCall[t].name
           atomic == token_id[s]
           token == Token(tCall[t].kind, atomic)
           map == insert(tokens[s], name, token)
       IN /\ token_id' = [token_id EXCEPT ![s] = fetch_add(token_id[s])]
          /\ tokens' = [tokens EXCEPT ![s] = map]
          /\ tRet' = [tRet EXCEPT ![t] =
                 [op |-> "add_token", sys |-> s, name |-> name, res |-> Ok(map[name])]]
          /\ tokLock' = [tokLock EXCEPT ![s].writer = "none"]
    /\ tpc' = [tpc EXCEPT ![t] = "idle"]
    /\ tCall' = [tCall EXCEPT ![t] = NoCall]
    /\ UNCHANGED notTokVars

\* get_token: a read lock for the length of the lookup; None is Err("None");
\* `self.tokens.read().ok()?` is None when the lock is poisoned
GetToken(t, s, name) ==
    /\ tpc[t] = "idle"
    /\ read_available(tokLock[s])
    /\ tRet' = [tRet EXCEPT ![t] =
           [op |-> "get_token", sys |-> s, name |-> name,
            res |-> IF is_poisoned(tokLock[s]) THEN Err("None")
                    ELSE IF get_some(tokens[s], name) THEN Ok(tokens[s][name])
                    ELSE Err("None")]]
    /\ UNCHANGED << tokens, token_id, tokLock, tpc, tCall >>
    /\ UNCHANGED notTokVars

\* a thread panics while it holds the write guard of a token table (a panic
\* raised under `map`, such as an allocation that panics): unwinding drops
\* the guard and poisons the lock
TokenWriterPanics(t) ==
    /\ tpc[t] \in {"locked", "create"}
    /\ LET s == tCall[t].sys IN
       /\ tokLock' = [tokLock EXCEPT ![s].writer = "none", ![s].poisoned = TRUE]
       /\ tRet' = [tRet EXCEPT ![t] =
              [op |-> "add_token", sys |-> s, name |-> tCall[t].name, res |-> Panic]]
    /\ tpc' = [tpc EXCEPT ![t] = "idle"]
    /\ tCall' = [tCall EXCEPT ![t] = NoCall]
    /\ UNCHANGED << tokens, token_id >>
    /\ UNCHANGED notTokVars

\* the tokens a table holds
TokensOf(map) == { map[n] : n \in DOMAIN map }

\* token_len, terminal_tokens_len and prod_tokens_len:
\* self.tokens.read().unwrap() panics when the lock is poisoned
TokenLen(t, s, query) ==
    /\ tpc[t] = "idle"
    /\ read_available(tokLock[s])
    /\ LET counted == CASE query = "token_len" -> DOMAIN tokens[s]
                         [] query = "terminal_tokens_len" ->
                               { n \in DOMAIN tokens[s] : is_terminal(tokens[s][n]) }
                         [] query = "prod_tokens_len" ->
                               { n \in DOMAIN tokens[s] : is_production(tokens[s][n]) }
       IN tRet' = [tRet EXCEPT ![t] =
              [op |-> query, sys |-> s, name |-> << >>,
               res |-> IF is_poisoned(tokLock[s]) THEN Panic ELSE Ok(Cardinality(counted))]]
    /\ UNCHANGED << tokens, token_id, tokLock, tpc, tCall >>
    /\ UNCHANGED notTokVars

TokenQueries == {"token_len", "terminal_tokens_len", "prod_tokens_len"}

RECURSIVE JoinNames(_)
\* names joined with one space between two of them
JoinNames(names) ==
    IF Len(names) = 0 THEN << >>
    ELSE IF Len(names) = 1 THEN names[1]
    ELSE names[1] \o << " " >> \o JoinNames(Tail(names))

\* System::format: code_to_string, the map from every Token of the table
\* to its name
code_to_string(map) ==
    [token \in TokensOf(map) |-> CHOOSE n \in DOMAIN map : map[n] = token]

\* DisplaySystem::format for a ProductionString: the names of its tokens
\* joined with single spaces, an error when a token has no name
format_string(names, string) ==
    IF \E i \in 1..Len(string) : string[i] \notin DOMAIN names
    THEN Err("General")
    ELSE Ok(JoinNames([i \in 1..Len(string) |-> names[string[i]]]))

\* System::format(item): the read guard is held while code_to_string is built;
\* Err(Error::general("Poisoned lock when accessing tokens")) when read() fails
format(map, lock, item) ==
    IF is_poisoned(lock) THEN Err("General")
    ELSE format_string(code_to_string(map), item)

\* the longest ProductionString handed to format
MaxFormat == 2

Format(t, s, item) ==
    /\ tpc[t] = "idle"
    /\ read_available(tokLock[s])
    /\ tRet' = [tRet EXCEPT ![t] =
           [op |-> "format", sys |-> s, name |-> << >>, res |-> format(tokens[s], tokLock[s], item)]]
    /\ UNCHANGED << tokens, token_id, tokLock, tpc, tCall >>
    /\ UNCHANGED notTokVars

\* every call on the token table a thread can make, its arguments drawn
\* from the given sets
TokCalls(threads, systems, names) ==
    \/ \E t \in threads, s \in systems, kind \in Kinds : AddTokenEmpty(t, s, kind)
    \/ \E t \in threads, s \in systems, name \in names, kind \in Kinds : AddTokenWrite(t, s, name, kind)
    \/ \E t \in threads : AddTokenGet(t)
    \/ \E t \in threads : AddTokenCreate(t)
    \/ \E t \in threads, s \in systems, name \in names : GetToken(t, s, name)

TokNext == TokCalls(Threads, Systems, Names)

----------------------------------------------------------------------------
(* productions.rs: Production::merge; system.rs: impl ProductionStore for   *)
(* System, find_matching, derive_once, derive                               *)

\* merge with the bodies of `other` put in front
merge_front(self, other) == [self EXCEPT !.body = other.body \o self.body]

\* Production::merge: add_body (push) for every body of `other`, in order
merge(self, other) == [self EXCEPT !.body = self.body \o other.body]

\* productions.iter().find(|p| p.head().eq(&head)): the position (1-based)
\* of the first production with that head, 0 for None
find_head(store, head) ==
    LET found == { k \in 1..Len(store) : store[k].head = head } IN
    IF found = {} THEN 0 ELSE CHOOSE k \in found : \A j \in found : k <= j

\* add_production that pushes whatever the store holds
add_production_push(store, production) ==
    LET stored == Append(store, production) IN
    [productions |-> stored, res |-> Ok(stored[find_head(stored, production.head)])]

\* System::add_production under the write lock: the store afterwards and
\* the value returned
add_production(store, production) ==
    LET head == production.head
        at == find_head(store, head)
        stored == IF at = 0
                  THEN Append(store, production)
                  ELSE [store EXCEPT ![at] = merge(store[at], production)]
    IN [productions |-> stored, res |-> Ok(stored[find_head(stored, head)])]

\* find_matching that returns the last production whose head matches
find_matching_last(store, string, index) ==
    LET found == { k \in 1..Len(store) : matches(store[k].head, string, index) = "true" } IN
    IF found = {} THEN 0 ELSE CHOOSE k \in found : \A j \in found : k >= j

\* find_matching: the position (1-based) of the first production whose head
\* matches the string at index, 0 for None
find_matching(store, string, index) ==
    LET found == { k \in 1..Len(store) : matches(store[k].head, string, index) = "true" } IN
    IF found = {} THEN 0 ELSE CHOOSE k \in found : \A j \in found : k <= j

\* The random values of one derive_once call: rnd[index] is the value
\* Production::body draws for the token at index. A value is drawn only
\* where a production with two or more bodies is selected.
Draw(rnd, index) == IF index \in DOMAIN rnd THEN rnd[index] ELSE 0

DrawPositions(store, string) ==
    { index \in 0..(Len(string) - 1) :
        LET k == find_matching(store, string, index) IN
        k # 0 /\ Len(store[k].body) >= 2 }

\* derive_once with no token kept for its kind
copied_never(token) == FALSE

\* derive_once: `if token.is_terminal() { result.push_token(*token); continue; }`
copied_for_kind(token) == is_terminal(token)

RECURSIVE derive_once_from(_, _, _, _, _)
\* the for loop of derive_once from position index on, `result` built so far
derive_once_from(string, store, rnd, index, result) ==
    IF index >= Len(string) THEN Ok(result)
    ELSE LET token == string[index + 1] IN
         IF copied_for_kind(token)
         THEN derive_once_from(string, store, rnd, index + 1, Append(result, token))
         ELSE LET k == find_matching(store, string, index) IN
              IF k # 0
              THEN LET b == body(store[k], Draw(rnd, index)) IN
                   IF ~b.ok THEN b
                   ELSE derive_once_from(string, store, rnd, index + 1,
                                         result \o store[k].body[b.value].string)
              ELSE derive_once_from(string, store, rnd, index + 1, Append(result, token))

\* derive_once(string, productions)
derive_once(string, store, rnd) ==
    IF Len(string) = 0 THEN Ok(<< >>)
    ELSE derive_once_from(string, store, rnd, 0, << >>)

\* the loop of derive left one iteration late
loop_done_late(c) == c.i > c.n

\* derive: `for _ in 0..settings.max_iterations` has run out
loop_done(c) == c.i >= c.n

\* One random value for every way the productions of the store can select:
\* r is left out when a smaller value selects the same body in every
\* production, so every outcome of every draw is still there.
DrawValues(store) ==
    LET drawing == { k \in 1..Len(store) : Len(store[k].body) >= 2 }
        selected == [k \in drawing |-> [r \in 0..ChanceUnits |-> body(store[k], r)]]
    IN { r \in 0..ChanceUnits :
           \A q \in 0..(r - 1) : \E k \in drawing : selected[k][q] # selected[k][r] }

\* the random values one derive_once call on `string` can draw
Draws(string) ==
    LET positions == DrawPositions(productions, string) IN
    IF positions = {} THEN { << >> } ELSE [positions -> DrawValues(productions)]

NoProdCall == [op |-> "none", p |-> 0, string |-> << >>, n |-> 0, i |-> 0, current |-> << >>]

NoProdRet == [op |-> "none", string |-> << >>, n |-> 0, steps |-> 0, rnd |-> << >>, res |-> Err("none")]

SysInit ==
    /\ productions = << >>
    /\ prodLock = Unlocked
    /\ pc = [t \in Threads |-> "idle"]
    /\ call = [t \in Threads |-> NoProdCall]
    /\ ret = [t \in Threads |-> NoProdRet]

\* add_production up to `self.productions.write()`: the thread has the
\* write lock; the result of its last call is gone
AddProductionWrite(t, production) ==
    /\ pc[t] = "idle"
    /\ write_available(prodLock)
    \* the model keeps body lists within MaxBodies
    /\ LET at == find_head(productions, production.head) IN
       at # 0 => Len(productions[at].body) + Len(production.body) <= MaxBodies
    /\ IF is_poisoned(prodLock)
       THEN \* Err(Error::new(ErrorKind::Locking, "production lock is poisoned"))
            /\ ret' = [ret EXCEPT ![t] =
                   [NoProdRet EXCEPT !.op = "add_production", !.res = Err("Locking")]]
            /\ UNCHANGED << prodLock, pc, call >>
       ELSE /\ prodLock' = [prodLock EXCEPT !.writer = t]
            /\ pc' = [pc EXCEPT ![t] = "adding"]
            /\ call' = [call EXCEPT ![t] =
                   [NoProdCall EXCEPT !.op = "add_production", !.p = production]]
            /\ ret' = [ret EXCEPT ![t] = NoProdRet]
    /\ UNCHANGED productions
    /\ UNCHANGED notSysVars

\* add_production that takes the write lock of the token table of s1 while it
\* holds the write lock of the store
AddProductionStoreNested(t) ==
    /\ write_available(tokLock["s1"])
    /\ pc[t] = "adding"
    /\ LET r == add_production(productions, call[t].p) IN
       /\ productions' = r.productions
       /\ ret' = [ret EXCEPT ![t] = [NoProdRet EXCEPT !.op = "add_production", !.res = r.res]]
    /\ prodLock' = [prodLock EXCEPT !.writer = "none"]
    /\ pc' = [pc EXCEPT ![t] = "idle"]
    /\ call' = [call EXCEPT ![t] = NoProdCall]
    /\ UNCHANGED notSysVars

\* the rest of add_production: find, merge or push, return the stored clone;
\* the return drops the guard
AddProductionStore(t) ==
    /\ pc[t] = "adding"
    /\ LET r == add_production(productions, call[t].p) IN
       /\ productions' = r.productions
       /\ ret' = [ret EXCEPT ![t] = [NoProdRet EXCEPT !.op = "add_production", !.res = r.res]]
    /\ prodLock' = [prodLock EXCEPT !.writer = "none"]
    /\ pc' = [pc EXCEPT ![t] = "idle"]
    /\ call' = [call EXCEPT ![t] = NoProdCall]
    /\ UNCHANGED notSysVars

\* System::derive_once: the empty string returns at once; otherwise a read
\* lock for the length of the call, and
\* Err(Error::general("Poisoned lock on production list")) when read() fails
DeriveOnce(t, string) ==
    /\ pc[t] = "idle"
    /\ Len(string) # 0 => read_available(prodLock)
    /\ IF Len(string) # 0 /\ is_poisoned(prodLock)
       THEN ret' = [ret EXCEPT ![t] =
                [NoProdRet EXCEPT !.op = "derive_once", !.string = string, !.res = Err("General")]]
       ELSE \E rnd \in Draws(string) :
                ret' = [ret EXCEPT ![t] =
                    [NoProdRet EXCEPT !.op = "derive_once", !.string = string, !.rnd = rnd, !.steps = 1,
                                      !.res = derive_once(string, productions, rnd)]]
    /\ UNCHANGED << productions, prodLock, pc, call >>
    /\ UNCHANGED notSysVars

\* derive of the empty string going to the store like any other string
DeriveEmptyRead(t, n) ==
    /\ pc[t] = "idle"
    /\ read_available(prodLock)
    /\ ret' = [ret EXCEPT ![t] =
           [NoProdRet EXCEPT !.op = "derive", !.n = n,
                             !.res = IF is_poisoned(prodLock) THEN Err("General") ELSE Ok(<< >>)]]
    /\ UNCHANGED << productions, prodLock, pc, call >>
    /\ UNCHANGED notSysVars

\* System::derive with the empty string: Ok(empty) at once, nothing locked
DeriveEmpty(t, n) ==
    /\ pc[t] = "idle"
    /\ ret' = [ret EXCEPT ![t] =
           [NoProdRet EXCEPT !.op = "derive", !.n = n, !.res = Ok(<< >>)]]
    /\ UNCHANGED << productions, prodLock, pc, call >>
    /\ UNCHANGED notSysVars

\* derive taking the lock of the store for writing
DeriveWrite(t, string, n) ==
    /\ pc[t] = "idle"
    /\ Len(string) # 0
    /\ write_available(prodLock)
    /\ prodLock' = [prodLock EXCEPT !.writer = t]
    /\ pc' = [pc EXCEPT ![t] = "deriving"]
    /\ call' = [call EXCEPT ![t] =
           [NoProdCall EXCEPT !.op = "derive", !.string = string, !.n = n, !.current = string]]
    /\ ret' = [ret EXCEPT ![t] = NoProdRet]
    /\ UNCHANGED productions
    /\ UNCHANGED notSysVars

\* System::derive up to `self.productions.read()`: the thread has a read
\* lock and enters derive(string, productions, settings) with current = string
DeriveRead(t, string, n) ==
    /\ pc[t] = "idle"
    /\ Len(string) # 0
    /\ read_available(prodLock)
    /\ IF is_poisoned(prodLock)
       THEN \* Err(Error::general("Poisoned lock on production list"))
            /\ ret' = [ret EXCEPT ![t] =
                   [NoProdRet EXCEPT !.op = "derive", !.string = string, !.n = n,
                                     !.res = Err("General")]]
            /\ UNCHANGED << prodLock, pc, call >>
       ELSE /\ prodLock' = [prodLock EXCEPT !.readers = @ \cup {t}]
            /\ pc' = [pc EXCEPT ![t] = "deriving"]
            /\ call' = [call EXCEPT ![t] =
                   [NoProdCall EXCEPT !.op = "derive", !.string = string, !.n = n, !.current = string]]
            /\ ret' = [ret EXCEPT ![t] = NoProdRet]
    /\ UNCHANGED productions
    /\ UNCHANGED notSysVars

\* the guard of System::derive is dropped
Release(lock, t) ==
    [lock EXCEPT !.writer = IF lock.writer = t THEN "none" ELSE lock.writer,
                 !.readers = lock.readers \ {t}]

\* one iteration of derive with the error of derive_once dropped: the loop
\* goes on with the sequence it had
DeriveIterSkip(t) ==
    /\ pc[t] = "deriving"
    /\ ~loop_done(call[t])
    /\ \E rnd \in Draws(call[t].current) :
          LET r == derive_once(call[t].current, productions, rnd) IN
          call' = [call EXCEPT ![t].current = IF r.ok THEN r.value ELSE @, ![t].i = @ + 1]
    /\ UNCHANGED << productions, prodLock, pc, ret >>
    /\ UNCHANGED notSysVars

\* one iteration of the loop of derive: current = derive_once(current, productions)?
\* with the random values the iteration draws
DeriveIter(t) ==
    /\ pc[t] = "deriving"
    /\ ~loop_done(call[t])
    /\ \E rnd \in Draws(call[t].current) :
          LET r == derive_once(call[t].current, productions, rnd) IN
          IF r.ok
          THEN /\ call' = [call EXCEPT ![t].current = r.value, ![t].i = @ + 1]
               /\ UNCHANGED << prodLock, pc, ret >>
          ELSE /\ ret' = [ret EXCEPT ![t] =
                      [NoProdRet EXCEPT !.op = "derive", !.string = call[t].string, !.n = call[t].n,
                                        !.steps = call[t].i + 1, !.res = r]]
               /\ prodLock' = Release(prodLock, t)
               /\ pc' = [pc EXCEPT ![t] = "idle"]
               /\ call' = [call EXCEPT ![t] = NoProdCall]
    /\ UNCHANGED productions
    /\ UNCHANGED notSysVars

\* the loop of derive is over: Ok(current); the guard is dropped
DeriveReturn(t) ==
    /\ pc[t] = "deriving"
    /\ loop_done(call[t])
    /\ ret' = [ret EXCEPT ![t] =
           [NoProdRet EXCEPT !.op = "derive", !.string = call[t].string, !.n = call[t].n,
                             !.steps = call[t].i, !.res = Ok(call[t].current)]]
    /\ prodLock' = Release(prodLock, t)
    /\ pc' = [pc EXCEPT ![t] = "idle"]
    /\ call' = [call EXCEPT ![t] = NoProdCall]
    /\ UNCHANGED productions
    /\ UNCHANGED notSysVars

\* a thread panics while it holds the write guard of the production store:
\* unwinding drops the guard and poisons the lock
ProductionWriterPanics(t) ==
    /\ pc[t] = "adding"
    /\ prodLock' = [prodLock EXCEPT !.writer = "none", !.poisoned = TRUE]
    /\ ret' = [ret EXCEPT ![t] = [NoProdRet EXCEPT !.op = "add_production", !.res = Panic]]
    /\ pc' = [pc EXCEPT ![t] = "idle"]
    /\ call' = [call EXCEPT ![t] = NoProdCall]
    /\ UNCHANGED productions
    /\ UNCHANGED notSysVars

\* production_len: self.productions.read().unwrap().len() panics when the
\* lock is poisoned
ProductionLen(t) ==
    /\ pc[t] = "idle"
    /\ read_available(prodLock)
    /\ ret' = [ret EXCEPT ![t] =
           [NoProdRet EXCEPT !.op = "production_len",
                             !.res = IF is_poisoned(prodLock) THEN Panic ELSE Ok(Len(productions))]]
    /\ UNCHANGED << productions, prodLock, pc, call >>
    /\ UNCHANGED notSysVars

\* every call a thread can make, its arguments drawn from the given sets
SysNext(threads, prods, axioms) ==
    \/ \E t \in threads, p \in prods : AddProductionWrite(t, p)
    \/ \E t \in threads : AddProductionStore(t)
    \/ \E t \in threads, string \in axioms : DeriveOnce(t, string)
    \/ \E t \in threads, n \in 0..MaxIter : DeriveEmpty(t, n)
    \/ \E t \in threads, string \in axioms, n \in 0..MaxIter : DeriveRead(t, string, n)
    \/ \E t \in threads : DeriveIter(t)
    \/ \E t \in threads : DeriveReturn(t)

----------------------------------------------------------------------------
(* Texts (&str): the sequence of the characters, every character a string  *)
(* of length one                                                            *)

\* char::is_ascii_whitespace: space, tab, line feed, form feed, carriage return
AsciiWhitespace == {" ", "\t", "\n", "\f", "\r"}

\* U+000B (vertical tab): it has the White_Space property and is not ASCII
\* whitespace. It stands for every such character (U+0085, U+00A0, ...).
VT == "VT"

is_ascii_whitespace(c) == c \in AsciiWhitespace

\* char::is_whitespace
is_whitespace(c) == c \in AsciiWhitespace \cup {VT}

RECURSIVE trim_start(_)
\* str::trim_start
trim_start(text) ==
    IF Len(text) > 0 /\ is_whitespace(text[1]) THEN trim_start(Tail(text)) ELSE text

\* str::trim
trim(text) == Reverse(trim_start(Reverse(trim_start(text))))

RECURSIVE split_ascii_whitespace(_)
\* str::split_ascii_whitespace, collected: the maximal runs of characters
\* that are not ASCII whitespace
split_ascii_whitespace(text) ==
    IF Len(text) = 0 THEN << >>
    ELSE IF is_ascii_whitespace(text[1]) THEN split_ascii_whitespace(Tail(text))
    ELSE LET stops == { i \in 1..Len(text) : is_ascii_whitespace(text[i]) }
             end == IF stops = {} THEN Len(text) + 1
                    ELSE CHOOSE i \in stops : \A j \in stops : i <= j
         IN << SubSeq(text, 1, end - 1) >> \o split_ascii_whitespace(SubSeq(text, end, Len(text)))

\* str::find(pattern): the position (0-based) of the first occurrence, -1
\* for None
find(text, pattern) ==
    LET found == { i \in 0..(Len(text) - Len(pattern)) :
                     SubSeq(text, i + 1, i + Len(pattern)) = pattern }
    IN IF found = {} THEN -1 ELSE CHOOSE i \in found : \A j \in found : i <= j

\* char::is_ascii_uppercase
AsciiUppercase ==
    {"A", "B", "C", "D", "E", "F", "G", "H", "I", "J", "K", "L", "M",
     "N", "O", "P", "Q", "R", "S", "T", "U", "V", "W", "X", "Y", "Z"}

is_ascii_uppercase(c) == c \in AsciiUppercase

DecimalDigits == << "0", "1", "2", "3", "4", "5", "6", "7", "8", "9" >>

is_digit(c) == \E d \in 1..10 : DecimalDigits[d] = c

digit(c) == (CHOOSE d \in 1..10 : DecimalDigits[d] = c) - 1

RECURSIVE Decimal(_)
\* the number a sequence of digits writes
Decimal(digits) ==
    IF Len(digits) = 0 THEN 0
    ELSE 10 * Decimal(SubSeq(digits, 1, Len(digits) - 1)) + digit(digits[Len(digits)])

RECURSIVE Pow10(_)
Pow10(n) == IF n = 0 THEN 1 ELSE 10 * Pow10(n - 1)

\* to_ascii_lowercase on the letters of "inf", "infinity" and "nan"
lower(c) ==
    CASE c = "I" -> "i" [] c = "N" -> "n" [] c = "F" -> "f" [] c = "A" -> "a"
      [] c = "T" -> "t" [] c = "Y" -> "y" [] OTHER -> c

\* An f32: NaN, an infinity, or the finite value mant / 10^scale, with its
\* sign. The texts of the model are short, so that no value is rounded.
F32(class, neg, mant, scale) == [class |-> class, neg |-> neg, mant |-> mant, scale |-> scale]

\* <f32 as FromStr>::from_str: an optional sign, then "inf", "infinity" or
\* "nan" in any case, or digits with at most one point and at least one
\* digit. No surrounding whitespace is accepted. An exponent (e, E) is not
\* in the alphabet of the texts of the model.
parse_f32(term) ==
    LET signed == Len(term) > 0 /\ term[1] \in {"+", "-"}
        neg == signed /\ term[1] = "-"
        rest == IF signed THEN Tail(term) ELSE term
        word == [i \in 1..Len(rest) |-> lower(rest[i])]
        points == { i \in 1..Len(rest) : rest[i] = "." }
        digits == SelectSeq(rest, is_digit)
    IN IF word \in { << "i", "n", "f" >>, << "i", "n", "f", "i", "n", "i", "t", "y" >> }
       THEN Ok(F32("inf", neg, 0, 0))
       ELSE IF word = << "n", "a", "n" >>
       THEN Ok(F32("nan", neg, 0, 0))
       ELSE IF /\ Len(digits) > 0
               /\ Cardinality(points) <= 1
               /\ \A i \in 1..Len(rest) : is_digit(rest[i]) \/ rest[i] = "."
       THEN Ok(F32("finite", neg, Decimal(digits),
                   IF points = {} THEN 0 ELSE Len(rest) - (CHOOSE i \in points : TRUE)))
       ELSE Err("Parse")

\* value > 0.0
f32_positive(value) ==
    /\ value.class # "nan"
    /\ ~value.neg
    /\ value.class = "inf" \/ value.mant > 0

\* value <= 1.0
f32_at_most_one(value) ==
    /\ value.class # "nan"
    /\ \/ value.neg
       \/ value.class = "finite" /\ value.mant <= Pow10(value.scale)

\* value >= 0.0; -0.0 >= 0.0 holds
f32_at_least_zero(value) ==
    /\ value.class # "nan"
    /\ ~value.neg \/ (value.class = "finite" /\ value.mant = 0)

\* The chance of the model (a multiple of 1 / ChanceUnits) for an f32 in
\* 0.0..=1.0, rounded down to a multiple the way f32 rounds to its own.
chance_units(value) == (value.mant * ChanceUnits) \div Pow10(value.scale)

----------------------------------------------------------------------------
(* system/parser.rs: determine_kind; System as the TokenStore the parsing  *)
(* functions write to                                                       *)

\* Option<TokenKind>
NoKind == [some |-> FALSE, val |-> "none"]

SomeKind(kind) == [some |-> TRUE, val |-> kind]

\* determine_kind
determine_kind(string) ==
    LET s == trim(string) IN
    IF Len(s) = 0 THEN NoKind
    ELSE IF \E i \in 1..Len(s) : s[i] \in {"(", ")", " "} THEN NoKind
    ELSE IF parse_f32(s).ok THEN NoKind
    ELSE IF is_ascii_uppercase(s[1]) THEN SomeKind(ProductionKind)
    ELSE SomeKind(Terminal)

\* The token table of a System and its counter, for calls that run one
\* after the other on a lock that is not poisoned.
Table(map, id) == [tokens |-> map, token_id |-> id]

\* add_token that makes a new token whether or not the name is known
add_token_fresh(table, name, kind) ==
    IF Len(name) = 0 THEN [table |-> table, res |-> Err("General")]
    ELSE LET map == insert(table.tokens, name, Token(kind, table.token_id))
         IN [table |-> Table(map, fetch_add(table.token_id)), res |-> Ok(map[name])]

\* System::add_token from entry to return: the table afterwards and the
\* value returned
add_token(table, name, kind) ==
    IF Len(name) = 0 THEN [table |-> table, res |-> Err("General")]
    ELSE IF get_some(table.tokens, name)
    THEN [table |-> table, res |-> Ok(table.tokens[name])]
    ELSE LET map == insert(table.tokens, name, Token(kind, table.token_id))
         IN [table |-> Table(map, fetch_add(table.token_id)), res |-> Ok(map[name])]

RECURSIVE push_tokens(_, _, _)
\* `for term in items`: determine_kind(term) or a Parse error, then
\* result.push_token(self.add_token(term, kind)?)
push_tokens(table, terms, result) ==
    IF Len(terms) = 0 THEN [table |-> table, res |-> Ok(result)]
    ELSE LET kind == determine_kind(terms[1]) IN
         IF ~kind.some THEN [table |-> table, res |-> Err("Parse")]
         ELSE LET added == add_token(table, terms[1], kind.val) IN
              IF ~added.res.ok THEN added
              ELSE push_tokens(added.table, Tail(terms), Append(result, added.res.value))

\* System::parse_prod_string
parse_prod_string(table, string) ==
    push_tokens(table, split_ascii_whitespace(trim(string)), << >>)

\* Chance::new on an f32: the two assertions, then the chance
chance_new(value) ==
    IF ~f32_positive(value) THEN Panic
    ELSE IF ~f32_at_most_one(value) THEN Panic
    ELSE Ok(ChanceSet(chance_units(value)))

\* a body that keeps no chance
try_with_chance_dropped(value, string) == Ok(ProductionBody(string, Derived))

\* ProductionBody::try_with_chance: a Parse error unless
\* (0.0..=1.0).contains(&chance), then Chance::new(chance)
try_with_chance(value, string) ==
    IF ~(f32_at_least_zero(value) /\ f32_at_most_one(value)) THEN Err("Parse")
    ELSE LET chance == chance_new(value) IN
         IF ~chance.ok THEN chance ELSE Ok(ProductionBody(string, chance.value))

\* parse_production_body(store, body)
parse_production_body(table, body_str) ==
    LET trimmed == trim(body_str) IN
    IF Len(trimmed) = 0
    THEN \* ProductionBody::empty()
         [table |-> table, res |-> Ok(ProductionBody(<< >>, Derived))]
    ELSE
    LET terms == split_ascii_whitespace(trimmed)
        \* index == 0: `if let Ok(val) = term.parse()`
        first == IF Len(terms) > 0 THEN parse_f32(terms[1]) ELSE Err("Parse")
        body_tokens == push_tokens(table, IF first.ok THEN Tail(terms) ELSE terms, << >>)
    IN
    IF ~body_tokens.res.ok THEN body_tokens
    ELSE [table |-> body_tokens.table,
          res |-> IF first.ok
                  THEN try_with_chance(first.value, body_tokens.res.value)
                  ELSE \* ProductionBody::new
                       Ok(ProductionBody(body_tokens.res.value, Derived))]

\* slice.splitn(2, |s| *s == separator): the terms before the first
\* separator and those after it, or the one slice of all terms
splitn2(terms, separator) ==
    LET found == { i \in 1..Len(terms) : terms[i] = separator } IN
    IF found = {} THEN << terms >>
    ELSE LET at == CHOOSE i \in found : \A j \in found : i <= j
         IN << SubSeq(terms, 1, at - 1), SubSeq(terms, at + 1, Len(terms)) >>

\* parse_head_context: None for no context; a Parse error, before any token
\* is added, when determine_kind knows no kind for one of the terms; else
\* the tokens add_token gives for the terms, in order (the second pass over
\* the iterator finds every name interned)
parse_head_context(table, strings) ==
    IF ~strings.some THEN [table |-> table, res |-> Ok(None)]
    ELSE IF \E i \in 1..Len(strings.val) : ~determine_kind(strings.val[i]).some
    THEN [table |-> table, res |-> Err("Parse")]
    ELSE LET added == push_tokens(table, strings.val, << >>) IN
         [table |-> added.table,
          res |-> IF added.res.ok THEN Ok(Some(added.res.value)) ELSE added.res]

\* parse_production_head(store, head)
parse_production_head(table, head_str) ==
    LET head == trim(head_str) IN
    IF Len(head) = 0 THEN [table |-> table, res |-> Err("Parse")]
    ELSE
    LET terms == split_ascii_whitespace(head)
        split == splitn2(terms, << "<" >>)
        left == IF Len(split) = 2 THEN Some(split[1]) ELSE None
        remains == IF Len(split) = 2 THEN split[2] ELSE split[1]
        split_right == splitn2(remains, << ">" >>)
        right == IF Len(split_right) = 2 THEN Some(split_right[2]) ELSE None
        target == split_right[1]
    IN
    IF Len(target) # 1 THEN [table |-> table, res |-> Err("Parse")]
    ELSE
    LET center == target[1] IN
    IF determine_kind(center) # SomeKind(ProductionKind)
    THEN [table |-> table, res |-> Err("Parse")]
    ELSE
    LET head_token == add_token(table, center, ProductionKind) IN
    IF ~head_token.res.ok THEN head_token
    ELSE
    LET pre == parse_head_context(head_token.table, left) IN
    IF ~pre.res.ok THEN pre
    ELSE
    LET post == parse_head_context(pre.table, right) IN
    IF ~post.res.ok THEN post
    ELSE \* ProductionHead::build
         [table |-> post.table,
          res |-> Ok(ProductionHead(pre.res.value, head_token.res.value, post.res.value))]

\* The part of parse_production before the store is touched: the text is
\* trimmed and cut at the first "->", the head and the body are parsed;
\* Production::new(head, body)
parsed_production(table, text) ==
    LET production == trim(text)
        index == find(production, << "-", ">" >>)
    IN
    IF Len(production) = 0 THEN [table |-> table, res |-> Err("Parse")]
    ELSE IF index = -1 THEN [table |-> table, res |-> Err("Parse")]
    ELSE
    LET head_str == SubSeq(production, 1, index)
        body_str == SubSeq(production, index + 3, Len(production))
    IN
    With(parse_production_head(table, head_str), LAMBDA head :
        IF ~head.res.ok THEN head
        ELSE With(parse_production_body(head.table, body_str), LAMBDA parsed_body :
                 IF ~parsed_body.res.ok THEN parsed_body
                 ELSE [table |-> parsed_body.table,
                       res |-> Ok(Production(head.res.value, << parsed_body.res.value >>))]))

\* parse_production that leaves the store as it is
parse_production_unstored(table, store, text) ==
    With(parsed_production(table, text), LAMBDA parsed :
        IF ~parsed.res.ok
        THEN [table |-> parsed.table, productions |-> store, res |-> parsed.res]
        ELSE [table |-> parsed.table, productions |-> store,
              res |-> add_production(store, parsed.res.value).res])

\* parse_production(token_store, prod_store, production): the table and
\* the store afterwards and the value returned
parse_production(table, store, text) ==
    With(parsed_production(table, text), LAMBDA parsed :
        IF ~parsed.res.ok
        THEN [table |-> parsed.table, productions |-> store, res |-> parsed.res]
        ELSE LET added == add_production(store, parsed.res.value) IN
             [table |-> parsed.table, productions |-> added.productions, res |-> added.res])

\* no text has been parsed; calls counts the parsing calls made
NoParse == [op |-> "none", calls |-> 0, res |-> Err("none")]

\* a call of a parsing function on System s by a thread that has the
\* System to itself: `parsed` is the table afterwards and the value returned
Parsed(s, op, parsed) ==
    /\ write_available(tokLock[s]) /\ ~is_poisoned(tokLock[s])
    /\ tokens' = [tokens EXCEPT ![s] = parsed.table.tokens]
    /\ token_id' = [token_id EXCEPT ![s] = parsed.table.token_id]
    /\ pRet' = [op |-> op, calls |-> pRet.calls + 1, res |-> parsed.res]
    /\ UNCHANGED << tokLock, tpc, tCall, tRet >>

\* system.parse_prod_string(pText)
ParseProdString(s) ==
    /\ pRet = NoParse
    /\ Parsed(s, "parse_prod_string", parse_prod_string(Table(tokens[s], token_id[s]), pText))
    /\ UNCHANGED << pText, matchVars, bodyVars, sysVars, lexVars, cellVars >>

\* parse_production_head(&system, pText)
ParseProductionHead(s) ==
    /\ pRet = NoParse
    /\ Parsed(s, "parse_production_head", parse_production_head(Table(tokens[s], token_id[s]), pText))
    /\ UNCHANGED << pText, matchVars, bodyVars, sysVars, lexVars, cellVars >>

\* parse_production_body(&system, pText)
ParseProductionBody(s) ==
    /\ pRet = NoParse
    /\ Parsed(s, "parse_production_body", parse_production_body(Table(tokens[s], token_id[s]), pText))
    /\ UNCHANGED << pText, matchVars, bodyVars, sysVars, lexVars, cellVars >>

\* most parse_production calls made on one System
MaxCalls == 3

\* system.parse_production(text) by a thread that has the System to itself
ParseProduction(s, text) ==
    /\ pRet.calls < MaxCalls
    /\ write_available(prodLock) /\ ~is_poisoned(prodLock)
    /\ \E r \in { parse_production(Table(tokens[s], token_id[s]), productions, text) } :
          /\ Parsed(s, "parse_production", [table |-> r.table, res |-> r.res])
          /\ productions' = r.productions
    /\ pText' = text
    /\ UNCHANGED << prodLock, pc, call, ret, matchVars, bodyVars, lexVars, cellVars >>

\* system.format(&string) for the string parse_prod_string returned
FormatParsed(t, s) ==
    /\ pRet.op = "parse_prod_string"
    /\ pRet.res.ok
    /\ tRet[t].op = "none"
    /\ Format(t, s, pRet.res.value)

----------------------------------------------------------------------------
(* The grammar tokenizer: parser/iterator.rs, parser/token.rs *)

\* impl From<&str> for TokenKind
TokenKind_from(value) ==
    CASE value = << ";" >> \/ value = << >> -> "Terminator"
      [] value = << "-", ">" >> -> "Arrow"
      [] value = << ">" >> -> "ContextRight"
      [] value = << "<" >> -> "ContextLeft"
      [] OTHER -> "Symbol"

\* Token::new(text, start, end) of the parser
ParserToken(text, start, end) ==
    [text |-> text, start |-> start, end |-> end, kind |-> TokenKind_from(text)]

\* the characters that break a token and are tokens themselves
SelfBreaking == {"<", ">", "-", "+", "(", ")"}

\* is_break
is_break(c) == is_whitespace(c) \/ c \in SelfBreaking

\* is_consume
is_consume(c) == is_whitespace(c)

\* Break::end
Break_end(index) == [kind |-> "End", index |-> index, char |-> ""]

\* Break::build for a character that is a break point
Break_build(index, c) ==
    IF is_consume(c) THEN [kind |-> "Ignore", index |-> index, char |-> c]
    ELSE [kind |-> "Token", index |-> index, char |-> c]

\* next_break(text, current); indices count from 0 as in the code
next_break(text, current) ==
    IF current >= Len(text) THEN Break_end(current)
    ELSE LET breaks == { i \in current..(Len(text) - 1) : is_break(text[i + 1]) } IN
         IF breaks = {} THEN Break_end(Len(text))
         ELSE LET end_index == CHOOSE i \in breaks : \A j \in breaks : i <= j
              IN Break_build(end_index, text[end_index + 1])

RECURSIVE chars_len(_, _, _)
\* chars.len() when the lookahead loop of next() ends: n characters have
\* been taken from index on
chars_len(text, index, n) ==
    LET lookahead == next_break(text, index + n) IN
    IF lookahead.kind = "Token" /\ lookahead.index = index + n
    THEN chars_len(text, index, n + 1)
    ELSE n

\* TokenIterator::new
TokenIterator_new(text) == [text |-> text, current |-> 0]

\* an item of the iterator
NoItem == [some |-> FALSE, val |-> ParserToken(<< >>, 0, 0)]

\* TokenIterator::next: the iterator afterwards and the item returned
TokenIterator_next(it) ==
    IF it.current >= Len(it.text) THEN [iterator |-> it, item |-> NoItem]
    ELSE LET text == SubSeq(it.text, it.current + 1, Len(it.text))
             kept == { i \in 0..(Len(text) - 1) : ~is_consume(text[i + 1]) }
         IN IF kept = {}
            THEN [iterator |-> [it EXCEPT !.current = Len(it.text)], item |-> NoItem]
            ELSE LET index == CHOOSE i \in kept : \A j \in kept : i <= j
                     brk == next_break(text, index)
                 IN IF brk.kind = "Token" /\ brk.index = 0
                    THEN LET n == chars_len(text, index, 1) IN
                         [iterator |-> [it EXCEPT !.current = it.current + n],
                          item |-> Some(ParserToken(SubSeq(text, index + 1, index + n),
                                                    it.current, it.current + n))]
                    ELSE [iterator |->
                            [it EXCEPT !.current =
                                IF brk.kind = "End" THEN Len(it.text)
                                ELSE it.current + brk.index
                                     + (IF brk.kind = "Ignore" THEN 1 ELSE 0)],
                          item |-> Some(ParserToken(SubSeq(text, index + 1, brk.index),
                                                    it.current, it.current + brk.index))]

RECURSIVE collect(_)
\* Iterator::collect: the tokens the iterator yields from here on
collect(it) ==
    LET step == TokenIterator_next(it) IN
    IF step.item.some THEN << step.item.val >> \o collect(step.iterator) ELSE << >>

RECURSIVE nth(_, _)
\* Iterator::nth(n): the iterator after n + 1 calls of next
nth(it, n) ==
    LET step == TokenIterator_next(it) IN
    IF n = 0 \/ ~step.item.some THEN step.iterator ELSE nth(step.iterator, n - 1)

\* iterator.next(), the item recorded
TokenIteratorNext ==
    /\ sResult = Err("none")
    /\ IF yielded = << >> THEN TRUE ELSE yielded[Len(yielded)].some
    /\ \E step \in { TokenIterator_next(iterator) } :
          /\ iterator' = step.iterator
          /\ yielded' = Append(yielded, step.item)
    /\ UNCHANGED << stack, sResult, matchVars, bodyVars, tokVars, sysVars, parseVars, cellVars >>

----------------------------------------------------------------------------
(* Statement splitting: parser/statement.rs *)

Matches(n) == [matches |-> TRUE, n |-> n]

No(n) == [matches |-> FALSE, n |-> n]

\* <ProductionString as ParsableType>::matches
ProductionString_matches(it) ==
    LET found == collect(it)
        others == { i \in 1..Len(found) : found[i].kind # "Symbol" }
    IN IF others = {} THEN No(0)
       ELSE LET first == CHOOSE i \in others : \A j \in others : i <= j
            IN IF found[first].kind = "Terminator" THEN Matches(first) ELSE No(first - 1)

\* Statement::new(StatementKind::ProductionString, tokens)
Statement(found) == [kind |-> "ProductionString", tokens |-> found]

RECURSIVE ParseStack_parse(_, _)
\* ParseStack::parse: the stack and the iterator afterwards and the value
\* returned
ParseStack_parse(statements, it) ==
    LET m == ProductionString_matches(it) IN
    IF m.matches
    THEN ParseStack_parse(Append(statements, Statement(SubSeq(collect(it), 1, m.n))),
                          IF m.n > 0 THEN nth(it, m.n - 1) ELSE it)
    ELSE [stack |-> statements, iterator |-> it,
          res |-> IF TokenIterator_next(it).item.some THEN Err("parse") ELSE Ok(0)]

RECURSIVE take_while_not_terminal(_)
\* tokens_iter().take_while(|t| !t.is_terminal())
take_while_not_terminal(found) ==
    IF Len(found) = 0 \/ found[1].kind = "Terminator" THEN << >>
    ELSE << found[1] >> \o take_while_not_terminal(Tail(found))

\* <ProductionString as ParsableType>::compile: the names of the symbols of
\* the statement
compile(statement) ==
    IF statement.kind # "ProductionString" THEN Err("parse")
    ELSE LET symbols == take_while_not_terminal(statement.tokens) IN
         IF \E i \in 1..Len(symbols) : symbols[i].kind # "Symbol" THEN Err("parse")
         ELSE Ok([i \in 1..Len(symbols) |-> symbols[i].text])

\* ParseStack::from(text).parse()
ParseStackParse ==
    /\ sResult = Err("none")
    /\ yielded = << >>
    /\ \E parsed \in { ParseStack_parse(stack, iterator) } :
          /\ stack' = parsed.stack
          /\ iterator' = parsed.iterator
          /\ sResult' = parsed.res
    /\ UNCHANGED << yielded, matchVars, bodyVars, tokVars, sysVars, parseVars, cellVars >>

----------------------------------------------------------------------------
(* RefCell<Vec<Production>> as a ProductionStore: productions.rs *)

\* <RefCell<Vec<Production>> as ProductionStore>::add_production: the
\* vector afterwards and the value returned
RefCell_add_production(vec, production) ==
    LET pushed == Append(vec, production) IN
    [productions |-> pushed, res |-> Ok(pushed[Len(pushed)])]

\* most productions pushed to the cell
MaxPush == 3

\* production_cell.add_production(production), also as the last step of
\* parse_and_add_production
RefCellAddProduction(production) ==
    /\ Len(cell) < MaxPush
    /\ cell' = RefCell_add_production(cell, production).productions
    /\ UNCHANGED << matchVars, bodyVars, tokVars, sysVars, parseVars, lexVars >>

----------------------------------------------------------------------------
(* Inputs of the System calls *)

\* "Forward -> Forward Forward"
ProdGrow == Production(ProductionHead(None, SymF, None), << ProductionBody(<< SymF, SymF >>, Derived) >>)

\* "Forward -> " with the chance 3 / ChanceUnits (the head of ProdGrow again)
ProdErase == Production(ProductionHead(None, SymF, None), << ProductionBody(<< >>, ChanceSet(3)) >>)

\* "Company -> surname Company", Company being the token of Forward
ProdCompany == Production(ProductionHead(None, SymF, None), << ProductionBody(<< SymS, SymF >>, Derived) >>)

\* a production built with ProductionHead::build on a Terminal token
ProdTerminal == Production(ProductionHead(None, SymS, None), << ProductionBody(<< SymF >>, Derived) >>)

\* one thread, the whole set of inputs
SeqThreads == {"t1"}

SeqProds == {ProdGrow, ProdErase, ProdCompany, ProdTerminal}

SeqAxioms == {<< SymF >>, << SymS, SymF >>}

\* the threads of the process, a small set of inputs
ParProds == {ProdGrow, ProdErase}

ParAxioms == {<< >>, << SymF >>}

----------------------------------------------------------------------------
(* The specifications *)

\* the variables of the matches harness when it is not in use
MatchIdle ==
    /\ mHead = ProductionHead(None, SymF, None)
    /\ mString = << >>
    /\ mIndex = -1
    /\ mResult = "none"

\* the variables of the body-selection harness when it is not in use
BodyIdle ==
    /\ bProd = Production(ProductionHead(None, SymF, None), << ProductionBody(<< >>, Derived) >>)
    /\ bRandom = -1
    /\ bResult = Err("none")

\* the System instances as System::new makes them, no call running
TokIdle == TokInit

\* the production store as System::new makes it, no call running
SysIdle == SysInit

ParseIdle ==
    /\ pText = << >>
    /\ pRet = NoParse

\* RefCell::new(Vec::new())
CellIdle == cell = << >>

\* no text is being tokenized
LexIdle ==
    /\ iterator = TokenIterator_new(<< >>)
    /\ yielded = << >>
    /\ stack = << >>
    /\ sResult = Err("none")

InitMatch == MatchInit /\ BodyIdle /\ TokIdle /\ SysIdle /\ ParseIdle /\ LexIdle /\ CellIdle

SpecMatch == InitMatch /\ [][MatchNext]_vars

InitBody == BodyInit /\ MatchIdle /\ TokIdle /\ SysIdle /\ ParseIdle /\ LexIdle /\ CellIdle

SpecBody == InitBody /\ [][BodyNext]_vars

InitTok == TokInit /\ MatchIdle /\ BodyIdle /\ SysIdle /\ ParseIdle /\ LexIdle /\ CellIdle

SpecTok == InitTok /\ [][TokNext]_vars

InitSys == SysInit /\ MatchIdle /\ BodyIdle /\ TokIdle /\ ParseIdle /\ LexIdle /\ CellIdle

\* one thread using a System
NextDerive == SysNext(SeqThreads, SeqProds, SeqAxioms)

SpecDerive == InitSys /\ [][NextDerive]_vars

\* the threads of the process sharing a System
NextStore == SysNext(Threads, ParProds, ParAxioms)

SpecStore == InitSys /\ [][NextStore]_vars

\* The tokens of "G < S -> S G" and "G S S S X" in the order a System
\* interns them: the target S, the context G, then X.
SigS == Token(ProductionKind, 100)

SigG == Token(ProductionKind, 101)

SigX == Token(ProductionKind, 102)

\* "G < S -> S G"
ProdSignal ==
    Production(ProductionHead(Some(<< SigG >>), SigS, None),
               << ProductionBody(<< SigS, SigG >>, Derived) >>)

\* "G > S -> "
ProdSignalErase ==
    Production(ProductionHead(None, SigG, Some(<< SigS >>)),
               << ProductionBody(<< >>, Derived) >>)

\* "G S S S X", "S G S S X", "S S G S X"
SignalAxioms ==
    { << SigG, SigS, SigS, SigS, SigX >>,
      << SigS, SigG, SigS, SigS, SigX >>,
      << SigS, SigS, SigG, SigS, SigX >> }

InitSignal ==
    /\ mHead = ProdSignal.head
    /\ mString = << SigG, SigS, SigS, SigS, SigX >>
    /\ mIndex = -1
    /\ mResult = "none"
    /\ BodyIdle /\ TokIdle /\ SysIdle /\ ParseIdle /\ LexIdle /\ CellIdle

\* one thread registering the signal productions and deriving, and the head
\* of ProdSignal matched against the axioms
NextSignal ==
    \/ MatchNext
    \/ SysNext(SeqThreads, {ProdSignal, ProdSignalErase}, SignalAxioms)

SpecSignal == InitSignal /\ [][NextSignal]_vars

\* "Forward < Forward -> G": its head matches wherever the head of ProdGrow
\* does, but for the first position
ProdAfter ==
    Production(ProductionHead(Some(<< SymF >>), SymF, None),
               << ProductionBody(<< SymG >>, Derived) >>)

OrderProds == {ProdGrow, ProdAfter, ProdErase}

OrderAxioms == {<< SymF, SymF >>, << SymG, SymF, SymF >>}

\* one thread registering productions whose heads overlap, in any order,
\* and running single derivation steps
NextOrder ==
    \/ \E t \in SeqThreads, p \in OrderProds : AddProductionWrite(t, p)
    \/ \E t \in SeqThreads : AddProductionStore(t)
    \/ \E t \in SeqThreads, string \in OrderAxioms : DeriveOnce(t, string)

SpecOrder == InitSys /\ [][NextOrder]_vars

InitPoison == TokInit /\ SysInit /\ MatchIdle /\ BodyIdle /\ ParseIdle /\ LexIdle /\ CellIdle

\* one thread using every operation of one System, and writers that panic
NextPoison ==
    \/ TokCalls(SeqThreads, {"s1"}, Names)
    \/ \E t \in SeqThreads, query \in TokenQueries : TokenLen(t, "s1", query)
    \/ \E t \in SeqThreads, item \in SeqUpTo(TokensOf(tokens["s1"]), MaxFormat) : Format(t, "s1", item)
    \/ \E t \in SeqThreads : TokenWriterPanics(t)
    \/ SysNext(SeqThreads, ParProds, ParAxioms)
    \/ \E t \in SeqThreads : ProductionLen(t)
    \/ \E t \in SeqThreads : ProductionWriterPanics(t)

SpecPoison == InitPoison /\ [][NextPoison]_vars

\* longest text handed to parse_prod_string
MaxText == 4

\* the characters of these texts: whitespace of three kinds, letters, a
\* digit and a parenthesis
TextAlphabet == {" ", "\t", VT, "a", "n", "B", "1", "("}

InitRoundTrip ==
    /\ pText \in SeqUpTo(TextAlphabet, MaxText)
    /\ pRet = NoParse
    /\ MatchIdle /\ BodyIdle /\ TokIdle /\ SysIdle /\ LexIdle /\ CellIdle

\* a text parsed by a new System, the string it gives formatted
NextRoundTrip ==
    \/ ParseProdString("s1")
    \/ FormatParsed("t1", "s1")

SpecRoundTrip == InitRoundTrip /\ [][NextRoundTrip]_vars

RECURSIVE Flatten(_)
\* the texts of a sequence of texts, one after the other
Flatten(texts) == IF Len(texts) = 0 THEN << >> ELSE texts[1] \o Flatten(Tail(texts))

\* the texts made of at most n of the given pieces
TextsOf(pieces, n) == { Flatten(ps) : ps \in SeqUpTo(pieces, n) }

\* most pieces of a head text
MaxHeadWords == 5

\* the pieces of a head text: names, a number and the separators, each
\* followed by a space, and whitespace
HeadPieces ==
    { << "A", " " >>, << "b", " " >>, << "1", " " >>, << "<", " " >>, << ">", " " >>, << "\t" >> }

InitHead ==
    /\ pText \in TextsOf(HeadPieces, MaxHeadWords)
    /\ pRet = NoParse
    /\ MatchIdle /\ BodyIdle /\ TokIdle /\ SysIdle /\ LexIdle /\ CellIdle

\* a head text parsed with a new System as the token store
NextHead == ParseProductionHead("s1")

SpecHead == InitHead /\ [][NextHead]_vars

\* most pieces of a body text
MaxBodyWords == 3

\* the pieces of a body text: names, numbers in and out of (0, 1], a
\* parenthesis, each followed by a space, and whitespace
BodyPieces ==
    { << "A", " " >>, << "b", " " >>, << "1", " " >>, << "0", ".", "5", " " >>,
      << "0", " " >>, << "2", " " >>, << "-", "1", " " >>, << "n", "a", "n", " " >>,
      << "i", "n", "f", " " >>, << "(", " " >>, << "\t" >> }

InitBodyText ==
    /\ pText \in TextsOf(BodyPieces, MaxBodyWords)
    /\ pRet = NoParse
    /\ MatchIdle /\ BodyIdle /\ TokIdle /\ SysIdle /\ LexIdle /\ CellIdle

\* a body text parsed with a new System as the token store
NextBodyText == ParseProductionBody("s1")

SpecBodyText == InitBodyText /\ [][NextBodyText]_vars

Arrow == << "-", ">" >>

\* the texts handed to parse_production: "", " ", "A", "-> b", "A ->",
\*  "A -> b", "B -> A", "A->b", "a -> b", "b < A -> 0.5 b", "A -> 2 b"
ProductionTexts ==
    { << >>,
      << " " >>,
      << "A" >>,
      Arrow \o << " ", "b" >>,
      << "A", " " >> \o Arrow,
      << "A", " " >> \o Arrow \o << " ", "b" >>,
      << "B", " " >> \o Arrow \o << " ", "A" >>,
      << "A" >> \o Arrow \o << "b" >>,
      << "a", " " >> \o Arrow \o << " ", "b" >>,
      << "b", " ", "<", " ", "A", " " >> \o Arrow \o << " ", "0", ".", "5", " ", "b" >>,
      << "A", " " >> \o Arrow \o << " ", "2", " ", "b" >> }

InitProduction == TokInit /\ SysInit /\ MatchIdle /\ BodyIdle /\ ParseIdle /\ LexIdle /\ CellIdle

\* one thread registering productions from text and counting them
NextProduction ==
    \/ \E text \in ProductionTexts : ParseProduction("s1", text)
    \/ \E t \in SeqThreads : ProductionLen(t)

SpecProduction == InitProduction /\ [][NextProduction]_vars

\* the characters of the tokenized texts
LexAlphabet == {"A", ";", " ", "-", ">", "<"}

InitLex ==
    /\ iterator \in { TokenIterator_new(text) : text \in SeqUpTo(LexAlphabet, MaxText) }
    /\ yielded = << >>
    /\ stack = << >>
    /\ sResult = Err("none")
    /\ MatchIdle /\ BodyIdle /\ TokIdle /\ SysIdle /\ ParseIdle /\ CellIdle

\* a text tokenized item by item, or split into statements
NextLex ==
    \/ TokenIteratorNext
    \/ ParseStackParse

SpecLex == InitLex /\ [][NextLex]_vars

\* the names, productions and axioms of the calls that contend for the locks
LockNames == {NameOne}

LockProds == {ProdGrow}

LockAxioms == {<< SymF >>}

\* Every operation of one System called by two threads, a thread making one
\* call at a time. parse_production and parse_prod_string are sequences of
\* add_token calls (and a last add_production call) made by one thread,
\* each returning before the next starts, so as to the locks they are the
\* calls below made one after the other.
NextLocks ==
    \/ \E t \in Threads, name \in LockNames :
          pc[t] = "idle" /\ AddTokenWrite(t, "s1", name, ProductionKind)
    \/ \E t \in Threads : AddTokenGet(t)
    \/ \E t \in Threads : AddTokenCreate(t)
    \/ \E t \in Threads, name \in LockNames : pc[t] = "idle" /\ GetToken(t, "s1", name)
    \/ \E t \in Threads : pc[t] = "idle" /\ TokenLen(t, "s1", "token_len")
    \/ \E t \in Threads : pc[t] = "idle" /\ Format(t, "s1", << >>)
    \/ \E t \in Threads, p \in LockProds : tpc[t] = "idle" /\ AddProductionWrite(t, p)
    \/ \E t \in Threads : AddProductionStore(t)
    \/ \E t \in Threads, string \in LockAxioms : tpc[t] = "idle" /\ DeriveOnce(t, string)
    \/ \E t \in Threads, string \in LockAxioms : tpc[t] = "idle" /\ DeriveRead(t, string, 1)
    \/ \E t \in Threads : DeriveIter(t)
    \/ \E t \in Threads : DeriveReturn(t)
    \/ \E t \in Threads : tpc[t] = "idle" /\ ProductionLen(t)

InitLocks == TokInit /\ SysInit /\ MatchIdle /\ BodyIdle /\ ParseIdle /\ LexIdle /\ CellIdle

\* the steps of a call of thread t that has acquired its lock
Continue(t) ==
    \/ AddTokenGet(t)
    \/ AddTokenCreate(t)
    \/ AddProductionStore(t)
    \/ DeriveIter(t)
    \/ DeriveReturn(t)

SpecLocks == InitLocks /\ [][NextLocks]_vars

InitCell ==
    /\ MatchIdle /\ BodyIdle /\ TokIdle /\ SysIdle /\ ParseIdle /\ LexIdle /\ CellIdle

\* the productions registered with the cell
CellProds == {ProdGrow, ProdErase, ProdCompany, ProdAfter, ProdTerminal}

NextCell == \E production \in CellProds : RefCellAddProduction(production)

SpecCell == InitCell /\ [][NextCell]_vars

\* the names a caller interns itself, with a kind of its choice
KindNames == { << "A" >>, << "b" >> }

InitKinds == TokInit /\ SysInit /\ MatchIdle /\ BodyIdle /\ ParseIdle /\ LexIdle /\ CellIdle

\* one thread interning names and registering productions from text
NextKinds ==
    \/ TokCalls(SeqThreads, {"s1"}, KindNames)
    \/ \E text \in ProductionTexts : ParseProduction("s1", text)

SpecKinds == InitKinds /\ [][NextKinds]_vars

----------------------------------------------------------------------------
(* C2 *)

\* The symbols of string at positions from..to-1 (0-based, half open),
\* empty when the range is empty or leaves the string.
Window(string, from, to) ==
    IF from < 0 \/ to > Len(string) \/ from >= to THEN << >>
    ELSE SubSeq(string, from + 1, to)

\* What C2 says matches is, for a valid index.
MatchesRef(head, string, index) ==
    /\ string[index + 1] = head.target
    /\ head.pre # None =>
          /\ Len(head.pre.val) <= index
          /\ Window(string, index - Len(head.pre.val), index) = head.pre.val
    /\ head.post # None =>
          /\ Len(head.post.val) <= Len(string) - 1 - index
          /\ Window(string, index + 1, index + 1 + Len(head.post.val)) = head.post.val

\* C2: for every head, every sequence and every valid index, matches is
\* true exactly when the symbol at index equals the target, a present
\* pre-context equals element-wise the symbols immediately before index and
\* a present post-context equals element-wise the symbols immediately after
\* index (so at the first position a present pre-context matches only if it
\* is empty, and at the last position a present post-context only if it is
\* empty); it never panics there.
C2_MatchesIffContext ==
    (mIndex >= 0 /\ mIndex < Len(mString)) =>
        mResult = Bool(MatchesRef(mHead, mString, mIndex))

\* A two-symbol pre-context with distinct symbols matched in the middle of
\* the string, with a post-context present too.
C2_Witness ==
    /\ mIndex = 2
    /\ mHead.pre = Some(<< SymF, SymG >>)
    /\ mHead.post = Some(<< >>)
    /\ mString = << SymF, SymG, SymF >>
    /\ mResult = "true"

----------------------------------------------------------------------------
(* C5 *)

\* body selection was applied to a production with two or more bodies whose
\* explicit chances sum to more than 1.0
C5_Case ==
    /\ bRandom >= 0
    /\ Len(bProd.body) >= 2
    /\ SumChance(bProd.body) > ChanceUnits

----------------------------------------------------------------------------
(* C7, C8, C9 *)

\* thread t holds the result of a successful add_token
AddOk(t) == tRet[t].op = "add_token" /\ tRet[t].res.ok

\* the codes of a token table, one per name
CodesInjective(map) ==
    \A n1 \in DOMAIN map, n2 \in DOMAIN map : map[n1].code = map[n2].code => n1 = n2

\* C7: under every interleaving of add_token calls of several threads on
\* one table the name-to-code mapping stays one-to-one: callers that intern
\* the same name get the same code, callers that intern different names get
\* different codes, every result is the entry the table holds for the name,
\* no two names of the table share a code, and the table gained exactly one
\* entry per code created.
C7_InternOneToOne ==
    /\ \A t1 \in Threads, t2 \in Threads :
          (AddOk(t1) /\ AddOk(t2) /\ tRet[t1].sys = tRet[t2].sys) =>
              (tRet[t1].name = tRet[t2].name
                  <=> tRet[t1].res.value.code = tRet[t2].res.value.code)
    /\ \A t \in Threads :
          AddOk(t) =>
              /\ tRet[t].name \in DOMAIN tokens[tRet[t].sys]
              /\ tokens[tRet[t].sys][tRet[t].name] = tRet[t].res.value
    /\ \A s \in Systems :
          /\ CodesInjective(tokens[s])
          /\ Cardinality(DOMAIN tokens[s]) = token_id[s] - TokenIdStart

\* Both threads have interned the same name on the same table, which holds
\* two names, and a third call is inside add_token on that table.
C7_Witness ==
    /\ AddOk("t1") /\ AddOk("t2")
    /\ tRet["t1"].sys = "s1" /\ tRet["t2"].sys = "s1"
    /\ tRet["t1"].name = NameTwo /\ tRet["t2"].name = NameTwo
    /\ DOMAIN tokens["s1"] = Names

C8_Step ==
    /\ \A s \in Systems :
          /\ \A n \in DOMAIN tokens[s] :
                n \in DOMAIN tokens'[s] /\ tokens'[s][n] = tokens[s][n]
          /\ \A n \in DOMAIN tokens'[s] \ DOMAIN tokens[s] :
                tokens'[s][n].code = 100 + Cardinality(DOMAIN tokens[s])
    /\ \A t \in Threads :
          AddOk(t)' =>
              /\ tRet'[t].name \in DOMAIN tokens'[tRet'[t].sys]
              /\ tRet'[t].res.value = tokens'[tRet'[t].sys][tRet'[t].name]

C9_Step ==
    /\ \A s \in Systems :
          \* no entry is changed or removed
          /\ \A n \in DOMAIN tokens[s] :
                n \in DOMAIN tokens'[s] /\ tokens'[s][n] = tokens[s][n]
          \* a code handed out is above the reserved range and above every
          \* code handed out before
          /\ \A n \in DOMAIN tokens'[s] \ DOMAIN tokens[s] :
                /\ tokens'[s][n].code >= 100
                /\ \A m \in DOMAIN tokens[s] : tokens'[s][n].code > tokens[s][m].code
          \* no code belongs to two names
          /\ CodesInjective(tokens'[s])
    /\ \A t \in Threads : AddOk(t)' => tRet'[t].res.value.code >= 100

\* C9: codes are never reused or freed: every code add_token creates is at
\* least 100 and strictly greater than every code the same table created
\* earlier; once a name has a code, no later step changes or removes that
\* entry; no code is assigned to a second name; every code add_token returns
\* is at least 100.
C9_CodesNeverReused == [][C9_Step]_vars

\* The table holds two names with the codes 100 and 101, and a later
\* add_token of the first name has returned 100 again.
C9_Witness ==
    /\ DOMAIN tokens["s1"] = Names
    /\ tokens["s1"][NameOne].code = 100
    /\ tokens["s1"][NameTwo].code = 101
    /\ token_id["s1"] = 102
    /\ AddOk("t1") /\ tRet["t1"].sys = "s1" /\ tRet["t1"].name = NameOne
    /\ tRet["t1"].res.value.code = 100
    /\ AddOk("t2") /\ tRet["t2"].sys = "s1" /\ tRet["t2"].name = NameTwo

----------------------------------------------------------------------------
(* C1 *)

\* no two entries of the store have the same head
HeadsDistinct(store) ==
    \A i \in 1..Len(store), j \in 1..Len(store) : store[i].head = store[j].head => i = j

\* thread t finishes an add_production call in this step
AddReturns(t) == pc[t] = "adding" /\ pc'[t] = "idle"

C1_Step ==
    /\ HeadsDistinct(productions')
    /\ \A t \in Threads :
          AddReturns(t) =>
              LET p == call[t].p
                  present == { k \in 1..Len(productions) : productions[k].head = p.head }
              IN IF present # {}
                 THEN /\ Len(productions') = Len(productions)
                      /\ \A k \in 1..Len(productions) :
                            /\ productions'[k].head = productions[k].head
                            /\ productions'[k].body =
                                  IF k \in present
                                  THEN productions[k].body \o p.body
                                  ELSE productions[k].body
                 ELSE productions' = Append(productions, p)

\* C1: after any sequence of add_production calls on one System the store
\* holds at most one production per distinct head: registering a production
\* whose head is already present appends its bodies to the existing entry,
\* adds no entry and changes no other entry; registering a new head adds
\* one entry at the end.
C1_OneProductionPerHead == [][C1_Step]_vars

\* Two heads are registered; the head of Forward was registered twice and
\* its entry holds both bodies in registration order.
C1_Witness ==
    /\ Len(productions) = 2
    /\ productions[1].head = ProdCompany.head
    /\ productions[1].body = ProdCompany.body \o ProdGrow.body
    /\ productions[2] = ProdTerminal
    /\ ret["t1"].op = "add_production"

----------------------------------------------------------------------------
(* C3 *)

\* some production of the store has a head that matches string at index
SomeHeadMatches(store, string, index) ==
    \E k \in 1..Len(store) : matches(store[k].head, string, index) = "true"

\* what a successful derive_once puts in the place of the symbol at index
\* when that symbol is replaced: the body selected from the matching production
Replacement(store, string, rnd, index) ==
    LET k == find_matching(store, string, index) IN
    store[k].body[body(store[k], Draw(rnd, index)).value].string

RECURSIVE C3_Output(_, _, _, _, _)
\* the output for the positions 0..upto-1, the symbol at index being
\* replaced exactly when replaced[index] holds
C3_Output(store, string, rnd, replaced, upto) ==
    IF upto = 0 THEN << >>
    ELSE C3_Output(store, string, rnd, replaced, upto - 1)
         \o (IF replaced[upto - 1]
             THEN Replacement(store, string, rnd, upto - 1)
             ELSE << string[upto] >>)

\* thread t holds the result of a successful derive_once
DeriveOnceOk(t) == ret[t].op = "derive_once" /\ ret[t].res.ok

----------------------------------------------------------------------------
(* C4 *)

\* every production of the store has one body: derive_once draws nothing
Deterministic(store) == \A k \in 1..Len(store) : Len(store[k].body) = 1

RECURSIVE C4_Iterate(_, _, _)
\* derive_once applied n times with a Deterministic store
C4_Iterate(string, store, n) ==
    IF n = 0 THEN string
    ELSE C4_Iterate(derive_once(string, store, << >>).value, store, n - 1)

\* thread t holds the result of a successful derive
DeriveOk(t) == ret[t].op = "derive" /\ ret[t].res.ok

\* C4: derive(axiom, n) returns the result of applying derive_once exactly
\* n times: a successful call has run n iterations (none for the empty
\* axiom, whose result is empty), also when the sequence no longer changes;
\* n = 0 returns the axiom; with one body per production the result is the
\* n-fold derive_once of the axiom; with the single rule Forward -> Forward
\* Forward and the axiom Forward it has length 2^n and only Forward symbols;
\* with Company -> surname Company and the axiom Company it has length n + 1.
C4_DeriveAppliesNTimes ==
    \A t \in Threads :
        DeriveOk(t) =>
            LET string == ret[t].string
                n == ret[t].n
                value == ret[t].res.value
            IN /\ string = << >> => value = << >>
               /\ string # << >> => ret[t].steps = n
               /\ n = 0 => value = string
               /\ Deterministic(productions) => value = C4_Iterate(string, productions, n)
               /\ (productions = << ProdGrow >> /\ string = << SymF >>) =>
                     /\ Len(value) = 2 ^ n
                     /\ \A i \in 1..Len(value) : value[i] = SymF
               /\ (productions = << ProdCompany >> /\ string = << SymF >>) =>
                     Len(value) = n + 1

\* Forward -> Forward Forward derived twice from Forward: four Forward symbols
C4_Witness ==
    /\ DeriveOk("t1")
    /\ productions = << ProdGrow >>
    /\ ret["t1"].string = << SymF >>
    /\ ret["t1"].n = 2
    /\ ret["t1"].steps = 2
    /\ ret["t1"].res.value = << SymF, SymF, SymF, SymF >>

----------------------------------------------------------------------------
(* C6 *)

\* the random values for which body selection returns the i-th body
SelectionInterval(production, i) ==
    { r \in 0..ChanceUnits : body(production, r) = Ok(i) }

C6_Step ==
    \A t \in Threads :
        AddReturns(t) =>
            \A at \in 1..Len(productions) :
                ( /\ productions[at].head = call[t].p.head
                  /\ Len(productions[at].body) = 1
                  /\ Len(call[t].p.body) = 1 ) =>
                    LET b1 == productions[at].body[1]
                        b2 == call[t].p.body[1]
                        direct == Production(call[t].p.head, << b1, b2 >>)
                        held == { k \in 1..Len(productions') :
                                    productions'[k].head = call[t].p.head }
                    IN /\ held = {at}
                       /\ productions'[at].body = << b1, b2 >>
                       /\ \A i \in 1..2 :
                             SelectionInterval(productions'[at], i) = SelectionInterval(direct, i)
                       /\ \A r \in 0..ChanceUnits :
                             body(productions'[at], r).ok = body(direct, r).ok
                       /\ ret'[t].op = "add_production"
                       /\ ret'[t].res = Ok(productions'[at])

\* C6: registering head H with the single body b1 and then H again with the
\* single body b2 leaves one production for H whose body list is [b1, b2] in
\* registration order; body selection from it gives every body the same
\* selection interval as a production created directly with the body list
\* [b1, b2] (and fails for the same random values); add_production returns
\* that merged production.
C6_MergeLaw == [][C6_Step]_vars

\* Forward was registered with the body Forward Forward and then with the
\* empty body of chance 3 / ChanceUnits: the call returned the entry with
\* both bodies, and each of the two is selected by some random value.
C6_Witness ==
    /\ ret["t1"].op = "add_production"
    /\ Len(productions) = 1
    /\ productions[1].body = ProdGrow.body \o ProdErase.body
    /\ ret["t1"].res = Ok(productions[1])
    /\ SelectionInterval(productions[1], 1) # {}
    /\ SelectionInterval(productions[1], 2) # {}

----------------------------------------------------------------------------
(* C10 *)

\* thread t is inside the derivation of a derive call
Deriving(t) == pc[t] = "deriving"

\* C10: a derive call holds a shared (read) lock on the production store,
\* and no exclusive lock, from its first step to its return, and holds
\* none once it has returned; while derive calls are inside their
\* derivation the lock can still be taken for reading, so a second derive
\* call enters and runs beside the first.
C10_DeriveHoldsReadLock ==
    /\ \A t \in Threads :
          /\ Deriving(t) => (t \in prodLock.readers /\ prodLock.writer = "none")
          /\ pc[t] = "idle" => (t \notin prodLock.readers /\ prodLock.writer # t)
    /\ (\E t \in Threads : Deriving(t)) => read_available(prodLock)

\* Both threads are inside a derivation of the same grammar with iterations
\* left to run, one of them has already run an iteration.
C10_Witness ==
    /\ Deriving("t1") /\ Deriving("t2")
    /\ prodLock.readers = {"t1", "t2"}
    /\ Len(productions) = 1
    /\ call["t1"].i = 1 /\ call["t1"].i < call["t1"].n
    /\ call["t2"].i = 0 /\ call["t2"].i < call["t2"].n

----------------------------------------------------------------------------
(* C11 *)

\* the operations that have to acquire the lock of the token table
TokenLockOps == {"add_token", "get_token", "format"} \cup TokenQueries

\* the operations that have to acquire the lock of the production store
\* (derive_once and derive of the empty string return before the lock)
StoreLockOps == {"add_production", "derive_once", "derive", "production_len"}

\* thread t returns from a call on the token table of s in this step, the
\* name being non-empty where the call has one
TokenCallReturns(t, s) ==
    /\ tpc[t] = "idle" /\ tpc'[t] = "idle"
    /\ tRet'[t] # tRet[t]
    /\ tRet'[t].op \in TokenLockOps
    /\ tRet'[t].sys = s
    /\ tRet'[t].op = "add_token" => tRet'[t].name # << >>

\* thread t returns from a call on the production store in this step, the
\* string being non-empty where the call has one
StoreCallReturns(t) ==
    /\ pc[t] = "idle" /\ pc'[t] = "idle"
    /\ ret'[t] # ret[t]
    /\ ret'[t].op \in StoreLockOps
    /\ ret'[t].op \in {"derive_once", "derive"} => ret'[t].string # << >>

C11_Step ==
    /\ \A t \in Threads, s \in Systems :
          (is_poisoned(tokLock[s]) /\ TokenCallReturns(t, s)) => tRet'[t].res = Err("Locking")
    /\ \A t \in Threads :
          (is_poisoned(prodLock) /\ StoreCallReturns(t)) => ret'[t].res = Err("Locking")

\* C11: once a lock of the grammar is poisoned, every later operation that
\* has to acquire that lock (add_token, get_token, add_production,
\* derive_once, derive, format and the length queries) returns an error of
\* kind Locking: no panic, no other error kind, no normal-looking result.
C11_PoisonedGivesLocking == [][C11_Step]_vars

----------------------------------------------------------------------------
(* C12 *)

\* body selection fails on the production: two or more bodies whose explicit
\* chances sum to more than 1.0
InvalidDistribution(production) ==
    Len(production.body) >= 2 /\ SumChance(production.body) > ChanceUnits

\* derive_once of string fails: at some position that is not a Terminal
\* the first production whose head matches has an invalid distribution
IterationFails(store, string) ==
    \E index \in 0..(Len(string) - 1) :
        /\ ~is_terminal(string[index + 1])
        /\ \E k \in 1..Len(store) :
              /\ matches(store[k].head, string, index) = "true"
              /\ \A j \in 1..(k - 1) : matches(store[j].head, string, index) # "true"
              /\ InvalidDistribution(store[k])

\* thread t runs one iteration of its derive call in this step
Iterates(t) == pc[t] = "deriving" /\ call[t].i < call[t].n /\ call'[t] # call[t]

C12_Step ==
    \A t \in Threads :
        /\ (Iterates(t) /\ IterationFails(productions, call[t].current)) =>
              /\ pc'[t] = "idle"
              /\ ret'[t].op = "derive"
              /\ ret'[t].res = Err("Execution")
              /\ ret'[t].steps = call[t].i + 1
              /\ t \notin prodLock'.readers
        /\ (Iterates(t) /\ ~IterationFails(productions, call[t].current)) =>
              /\ pc'[t] = "deriving"
              /\ call'[t].i = call[t].i + 1
        /\ (ret'[t].op = "derive" /\ ~ret'[t].res.ok) =>
              /\ ret'[t].res = Err("Execution")
              /\ ret'[t].steps >= 1 /\ ret'[t].steps <= ret'[t].n

\* C12: if derive_once fails in some iteration of a derive call (body
\* selection fails on an invalid probability distribution of a production
\* that matches the current sequence), derive runs no further iteration and
\* returns that same error, of kind Execution, instead of a sequence: the
\* call is over after the failing iteration, however many iterations were
\* asked for, and its guard is dropped; an iteration that does not fail
\* leaves the call running.
C12_DeriveStopsAtError == [][C12_Step]_vars

\* Forward holds two bodies of chance 3 / ChanceUnits each; derive with two
\* iterations asked for has failed in the first.
C12_Witness ==
    /\ ret["t1"].op = "derive"
    /\ ret["t1"].res = Err("Execution")
    /\ ret["t1"].n = 2
    /\ ret["t1"].steps = 1
    /\ productions = << merge(ProdErase, ProdErase) >>

----------------------------------------------------------------------------
(* C13 *)

\* the store holds "G < S -> S G" alone
SignalOnly == productions = << ProdSignal >>

\* the store holds "G < S -> S G" and "G > S -> ", in either order
SignalAndErase ==
    productions \in { << ProdSignal, ProdSignalErase >>, << ProdSignalErase, ProdSignal >> }

\* whatever thread t holds for `string` after `steps` iterations is `value`
Gives(t, string, steps, value) ==
    (\/ (ret[t].op = "derive_once" /\ steps = 1)
     \/ (ret[t].op = "derive" /\ ret[t].n = steps))
    /\ ret[t].string = string
    => ret[t].res = Ok(value)

\* Head.matches of "G < S -> S G" on "G S S S X" is true only at position 1
C13_MatchesOnlyAfterG ==
    ( /\ mHead = ProdSignal.head
      /\ mString = << SigG, SigS, SigS, SigS, SigX >>
      /\ mIndex >= 0 /\ mIndex < Len(mString) )
    => (mResult = "true" <=> mIndex = 1)

\* C13 as stated: Head.matches is true only at position 1, and with the
\* head G < S -> S G as the grammar three successive derivation steps
\* transform G S S S X into S G S S X, then S S G S X, then S S S G X.
C13_Original ==
    /\ C13_MatchesOnlyAfterG
    /\ \A t \in SeqThreads :
          SignalOnly =>
              /\ Gives(t, << SigG, SigS, SigS, SigS, SigX >>, 1, << SigS, SigG, SigS, SigS, SigX >>)
              /\ Gives(t, << SigS, SigG, SigS, SigS, SigX >>, 1, << SigS, SigS, SigG, SigS, SigX >>)
              /\ Gives(t, << SigS, SigS, SigG, SigS, SigX >>, 1, << SigS, SigS, SigS, SigG, SigX >>)

\* C13 as amended: Head.matches of G < S -> S G on G S S S X is true only
\* at position 1. With that rule alone G is never removed: one derivation
\* step turns G S S S X into G S G S S X, two steps into G S G G S G S X.
\* With the rule G > S -> (empty body) registered as well, successive
\* derivation steps turn G S S S X into S G S S X, then S S G S X, then
\* S S S G X (one, two and three iterations of derive give the same).
C13_SignalMoves ==
    /\ C13_MatchesOnlyAfterG
    /\ \A t \in SeqThreads :
          /\ SignalOnly =>
                /\ Gives(t, << SigG, SigS, SigS, SigS, SigX >>, 1,
                         << SigG, SigS, SigG, SigS, SigS, SigX >>)
                /\ Gives(t, << SigG, SigS, SigS, SigS, SigX >>, 2,
                         << SigG, SigS, SigG, SigG, SigS, SigG, SigS, SigX >>)
          /\ SignalAndErase =>
                /\ Gives(t, << SigG, SigS, SigS, SigS, SigX >>, 1, << SigS, SigG, SigS, SigS, SigX >>)
                /\ Gives(t, << SigS, SigG, SigS, SigS, SigX >>, 1, << SigS, SigS, SigG, SigS, SigX >>)
                /\ Gives(t, << SigS, SigS, SigG, SigS, SigX >>, 1, << SigS, SigS, SigS, SigG, SigX >>)
                /\ Gives(t, << SigG, SigS, SigS, SigS, SigX >>, 2, << SigS, SigS, SigG, SigS, SigX >>)
                /\ Gives(t, << SigS, SigG, SigS, SigS, SigX >>, 2, << SigS, SigS, SigS, SigG, SigX >>)
                /\ Gives(t, << SigG, SigS, SigS, SigS, SigX >>, 3, << SigS, SigS, SigS, SigG, SigX >>)

\* The head has matched at position 1 of G S S S X, and with both rules
\* registered derive has moved G two places in two iterations.
C13_Witness ==
    /\ mString = << SigG, SigS, SigS, SigS, SigX >>
    /\ mIndex = 1 /\ mResult = "true"
    /\ SignalAndErase
    /\ ret["t1"].op = "derive" /\ ret["t1"].n = 2
    /\ ret["t1"].string = << SigG, SigS, SigS, SigS, SigX >>
    /\ ret["t1"].res = Ok(<< SigS, SigS, SigG, SigS, SigX >>)

----------------------------------------------------------------------------
(* C14 *)

\* thread t returns from derive_once or derive in this step
DeriveCallReturns(t) ==
    /\ ret'[t] # ret[t]
    /\ ret'[t].op \in {"derive_once", "derive"}

C14_Step ==
    \A t \in Threads :
        DeriveCallReturns(t) =>
            \* the empty sequence: empty again, the call never held the lock
            /\ ret'[t].string = << >> =>
                  /\ ret'[t].res = Ok(<< >>)
                  /\ pc[t] = "idle"
                  /\ prodLock' = prodLock
            \* the erasing rule alone, the axiom its target
            /\ ( /\ productions = << ProdErase >>
                 /\ ret'[t].string = << SymF >>
                 /\ (ret'[t].op = "derive_once" \/ ret'[t].n >= 1) ) =>
                  ret'[t].res = Ok(<< >>)

\* a thread between two calls can derive the empty sequence whoever holds
\* the lock of the store
C14_EmptyNeedsNoLock ==
    \A t \in Threads :
        pc[t] = "idle" =>
            /\ \A n \in 0..MaxIter : ENABLED DeriveEmpty(t, n)
            /\ ENABLED DeriveOnce(t, << >>)

----------------------------------------------------------------------------
(* C15 *)

RECURSIVE Collapse(_)
\* every run of ASCII whitespace replaced by one space, a run at the end
\* removed
Collapse(text) ==
    IF Len(text) = 0 THEN << >>
    ELSE IF ~is_ascii_whitespace(text[1]) THEN << text[1] >> \o Collapse(Tail(text))
    ELSE IF Len(text) = 1 \/ is_ascii_whitespace(text[2]) THEN Collapse(Tail(text))
    ELSE << " " >> \o Collapse(Tail(text))

\* normalize_whitespace
NormalizeWhitespace(text) ==
    LET collapsed == Collapse(text) IN
    IF Len(collapsed) > 0 /\ collapsed[1] = " " THEN Tail(collapsed) ELSE collapsed

\* the names of the text are separated by ASCII whitespace and hold no
\* whitespace of another kind
AsciiSeparated(text) == \A i \in 1..Len(text) : text[i] # VT

\* no name of the text is the text of a number or holds a parenthesis
PlainNames(text) ==
    LET names == split_ascii_whitespace(text) IN
    \A i \in 1..Len(names) :
        /\ ~parse_f32(names[i]).ok
        /\ \A k \in 1..Len(names[i]) : names[i][k] \notin {"(", ")"}

\* parse_prod_string succeeded and format gave the normalised text
RoundTrips ==
    /\ pRet.op = "parse_prod_string" => pRet.res.ok
    /\ tRet["t1"].op = "format" => tRet["t1"].res = Ok(NormalizeWhitespace(pText))

\* C15 as stated: for every text of names separated by whitespace,
\* format(parse_prod_string(s)) succeeds and is s with its whitespace
\* normalised.
C15_Original == AsciiSeparated(pText) => RoundTrips

\* C15, amended: for every text of names separated by ASCII whitespace in
\* which no name is the text of a number or holds a parenthesis or another
\* whitespace character, format(parse_prod_string(s)) succeeds and is s with
\* every run of whitespace replaced by one space and the whitespace at its
\* ends removed.
C15_RoundTrip == (AsciiSeparated(pText) /\ PlainNames(pText)) => RoundTrips

\* "a\t B" has been parsed and formatted as "a B"
C15_Witness ==
    /\ pText = << "a", "\t", " ", "B" >>
    /\ pRet.res.ok
    /\ tRet["t1"].op = "format"
    /\ tRet["t1"].res = Ok(<< "a", " ", "B" >>)

----------------------------------------------------------------------------
(* C16 *)

\* the positions of a separator among the terms of a head text
SeparatorsAt(terms, separator) == { i \in 1..Len(terms) : terms[i] = << separator >> }

\* the tokens the System has for the names
TokensNamed(map, names) == [i \in 1..Len(names) |-> map[names[i]]]

\* What C16 says of a head text whose terms the parser takes for symbols
\* (the target a capitalised name, no context term a number).
HeadAsStated(text, res, map) ==
    LET terms == split_ascii_whitespace(trim(text))
        lts == SeparatorsAt(terms, "<")
        gts == SeparatorsAt(terms, ">")
    IN IF Len(terms) = 0 \/ Cardinality(lts) > 1 \/ Cardinality(gts) > 1
       THEN res = Err("Parse")
       ELSE LET lo == IF lts = {} THEN 0 ELSE CHOOSE i \in lts : TRUE
                hi == IF gts = {} THEN Len(terms) + 1 ELSE CHOOSE i \in gts : TRUE
                pre == SubSeq(terms, 1, lo - 1)
                post == SubSeq(terms, hi + 1, Len(terms))
            IN IF hi - lo # 2 THEN res = Err("Parse")
               ELSE (/\ determine_kind(terms[lo + 1]) = SomeKind(ProductionKind)
                     /\ \A i \in 1..Len(terms) : i \notin lts \cup gts => determine_kind(terms[i]).some)
                    => /\ res.ok
                       /\ res.value.target = map[terms[lo + 1]]
                       /\ res.value.pre = (IF lts = {} THEN None ELSE Some(TokensNamed(map, pre)))
                       /\ res.value.post = (IF gts = {} THEN None ELSE Some(TokensNamed(map, post)))

\* C16: parse_production_head returns a Parse error for an empty head, for
\* more than one "<" or more than one ">", and for other than one symbol
\* between the separators; otherwise a head with that symbol as the target
\* and the runs left of "<" and right of ">" as the contexts, absent when the
\* separator is.
C16_ParseHead ==
    pRet.op = "parse_production_head" => HeadAsStated(pText, pRet.res, tokens["s1"])

----------------------------------------------------------------------------
(* C17 *)

\* the first term of the text parses as a number in (0, 1]
FirstInUnit(terms) ==
    /\ Len(terms) > 0
    /\ parse_f32(terms[1]).ok
    /\ f32_positive(parse_f32(terms[1]).value)
    /\ f32_at_most_one(parse_f32(terms[1]).value)

\* the terms are symbol names: determine_kind has a kind for each
AllNames(terms) == \A i \in 1..Len(terms) : determine_kind(terms[i]).some

\* the body with the explicit chance of the first term and the rest as
\* its sequence
ExplicitBody(terms, res, map) ==
    /\ res.ok
    /\ is_user_set(res.value.chance)
    /\ res.value.chance = ChanceSet(chance_units(parse_f32(terms[1]).value))
    /\ res.value.string = TokensNamed(map, Tail(terms))

\* the body with a derived chance and all terms as its sequence
DerivedBody(terms, res, map) ==
    /\ res.ok
    /\ is_derived(res.value.chance)
    /\ Len(res.value.string) = Len(terms)
    /\ AllNames(terms) => res.value.string = TokensNamed(map, terms)

----------------------------------------------------------------------------
(* C18 *)

\* the first term of the text parses as a number outside (0, 1]
FirstOutOfUnit(terms) ==
    /\ Len(terms) > 0
    /\ parse_f32(terms[1]).ok
    /\ ~FirstInUnit(terms)

\* C18: no parsing function panics, whatever the text; a body whose first
\* term is a number outside (0, 1] is reported as an error value.
C18_NeverPanics ==
    /\ pRet.res # Panic
    /\ (pRet.op = "parse_production_body" /\ FirstOutOfUnit(split_ascii_whitespace(trim(pText))))
           => (~pRet.res.ok /\ pRet.res.kind \in {"Parse", "General", "Locking", "Execution"})

----------------------------------------------------------------------------
(* C19 *)

\* the text before the first arrow of a text that has one
BeforeArrow(text) == SubSeq(trim(text), 1, find(trim(text), Arrow))

\* the text after the first arrow of a text that has one
AfterArrow(text) == SubSeq(trim(text), find(trim(text), Arrow) + 3, Len(trim(text)))

\* the text is empty, has no arrow, or has nothing before its first arrow
NoHeadText(text) ==
    \/ Len(trim(text)) = 0
    \/ find(trim(text), Arrow) = -1
    \/ Len(trim(BeforeArrow(text))) = 0

\* the text has a head that parse_production_head accepts from the table
\* and nothing after its first arrow
EmptyBodyText(table, text) ==
    /\ ~NoHeadText(text)
    /\ parse_production_head(table, BeforeArrow(text)).res.ok
    /\ Len(trim(AfterArrow(text))) = 0

\* the heads the store holds
HeadsOf(store) == { store[k].head : k \in 1..Len(store) }

\* a step that is a parse_production call
ParseProductionStep ==
    /\ pRet'.op = "parse_production"
    /\ pRet'.calls = pRet.calls + 1

C19_Step ==
    ParseProductionStep =>
        LET res == pRet'.res
            table == Table(tokens["s1"], token_id["s1"])
        IN /\ NoHeadText(pText') =>
                 /\ res = Err("Parse")
                 /\ productions' = productions
           /\ EmptyBodyText(table, pText') =>
                 /\ res.ok
                 /\ \E k \in 1..Len(productions') :
                       /\ productions'[k] = res.value
                       /\ res.value.body[Len(res.value.body)] = ProductionBody(<< >>, Derived)
                       /\ res.value.head \notin HeadsOf(productions) => Len(res.value.body) = 1
           /\ res.ok =>
                 Len(productions') =
                     IF res.value.head \in HeadsOf(productions)
                     THEN Len(productions) ELSE Len(productions) + 1

\* C19: parse_production returns an error and leaves the store as it was
\* for a text that is empty, has no arrow or has nothing before its first
\* arrow; with a valid head and nothing after the arrow it succeeds and
\* registers a production with the empty sequence as its one body; on
\* every success production_len grows by one for a new head and stays the
\* same for a head already registered.
C19_ParseProduction == [][C19_Step]_vars

\* "A -> b", then "A ->" for the head already registered, then "B -> A" for
\* a new head: two productions, the first with the bodies b and empty
C19_Witness ==
    /\ pRet.op = "parse_production"
    /\ pRet.calls = 3
    /\ pRet.res.ok
    /\ pText = << "B", " " >> \o Arrow \o << " ", "A" >>
    /\ Len(productions) = 2
    /\ Len(productions[1].body) = 2
    /\ productions[1].body[2] = ProductionBody(<< >>, Derived)

----------------------------------------------------------------------------
(* C20 *)

\* C20: every production the System holds has a head whose target is a
\* token of kind Production.
C20_TargetsAreProductions ==
    \A k \in 1..Len(productions) : is_production(productions[k].head.target)

----------------------------------------------------------------------------
(* C21 *)

\* the productions whose heads match the input string at index
MatchingAt(store, string, index) ==
    { k \in 1..Len(store) : matches(store[k].head, string, index) = "true" }

RECURSIVE C21_Output(_, _, _, _)
\* The output for the positions 0..upto-1, from left to right: a Terminal
\* symbol and a symbol no head matches are copied; any other symbol gives way
\* to the body selected from the earliest production of the store whose head
\* matches the input string there.
C21_Output(store, string, rnd, upto) ==
    IF upto = 0 THEN << >>
    ELSE C21_Output(store, string, rnd, upto - 1)
         \o (LET index == upto - 1
                  matching == MatchingAt(store, string, index)
              IN IF is_terminal(string[upto]) \/ matching = {} THEN << string[upto] >>
                 ELSE LET k == CHOOSE k \in matching : \A j \in matching : k <= j
                      IN store[k].body[body(store[k], Draw(rnd, index)).value].string)

\* C21: derive_once goes through the positions from left to right and
\* matches every head against the input sequence of the step, never against
\* the output built so far; where the heads of several productions match,
\* the body spliced in comes from the production registered earliest.
C21_EarliestMatchOnInput ==
    \A t \in Threads :
        DeriveOnceOk(t) =>
            ret[t].res.value = C21_Output(productions, ret[t].string, ret[t].rnd, Len(ret[t].string))

\* Forward -> Forward Forward was registered before Forward < Forward -> G:
\* both heads match at the second Forward of Forward Forward, and the body of
\* the first was spliced in
C21_Witness ==
    /\ DeriveOnceOk("t1")
    /\ productions = << ProdGrow, ProdAfter >>
    /\ ret["t1"].string = << SymF, SymF >>
    /\ Cardinality(MatchingAt(productions, ret["t1"].string, 1)) = 2
    /\ ret["t1"].res.value = << SymF, SymF, SymF, SymF >>

----------------------------------------------------------------------------
(* C22 *)

\* the explicit chances of the bodies, summed
ExplicitTotal(bodies) ==
    LET explicit == { i \in 1..Len(bodies) : is_user_set(bodies[i].chance) } IN
    IF explicit = {} THEN 0 ELSE SumChance([i \in 1..Len(bodies) |-> bodies[i]])

RECURSIVE C22_Walk(_, _, _, _, _, _)
\* The walk of the reference algorithm from body i on. k is the number of
\* derived bodies (1 when there is none) and every value is multiplied by k,
\* so that default * k = 1 - total is a whole number of units; acc is the
\* accumulated value before body i; the walk stops at the first body whose
\* accumulated value exceeds u, or meets it when orEqual holds.
C22_Walk(bodies, i, acc, u, k, orEqual) ==
    IF i > Len(bodies) THEN Len(bodies)
    ELSE LET share == IF is_user_set(bodies[i].chance)
                      THEN bodies[i].chance.chance * k
                      ELSE ChanceUnits - ExplicitTotal(bodies)
             next == acc + share
         IN IF next > u * k \/ (orEqual /\ next = u * k) THEN i
            ELSE C22_Walk(bodies, i + 1, next, u, k, orEqual)

\* the body (its position) the reference algorithm returns for the value u
C22_Reference(bodies, u, orEqual) ==
    IF Len(bodies) = 1 THEN 1
    ELSE LET derived == Cardinality({ i \in 1..Len(bodies) : is_derived(bodies[i].chance) })
         IN C22_Walk(bodies, 1, 0, u, IF derived = 0 THEN 1 ELSE derived, orEqual)

\* body selection was applied to a body list the reference algorithm covers
C22_Case ==
    /\ bRandom >= 0
    /\ Len(bProd.body) = 1 \/ ExplicitTotal(bProd.body) <= ChanceUnits

----------------------------------------------------------------------------
(* C23 *)

RECURSIVE RunOf(_, _, _)
\* the length of the longest prefix of the text whose characters are all in
\* the set (inside) or all out of it
RunOf(text, set, inside) ==
    IF Len(text) > 0 /\ ((text[1] \in set) <=> inside)
    THEN 1 + RunOf(Tail(text), set, inside) ELSE 0

RECURSIVE C23_Pieces(_)
\* The pieces of a text: whitespace dropped, a maximal run of non-break
\* characters one piece, a maximal run of one self-breaking character one
\* piece, a run of '-' with the run of '>' that follows it one piece.
C23_Pieces(text) ==
    IF Len(text) = 0 THEN << >>
    ELSE IF is_whitespace(text[1]) THEN C23_Pieces(Tail(text))
    ELSE LET c == text[1]
             same == IF c \in SelfBreaking
                     THEN RunOf(text, {c}, TRUE)
                     ELSE RunOf(text, AsciiWhitespace \cup {VT} \cup SelfBreaking, FALSE)
             after == SubSeq(text, same + 1, Len(text))
             n == IF c = "-" THEN same + RunOf(after, {">"}, TRUE) ELSE same
         IN << SubSeq(text, 1, n) >> \o C23_Pieces(SubSeq(text, n + 1, Len(text)))

\* the iterator has been run to its end
C23_Exhausted == yielded # << >> /\ ~yielded[Len(yielded)].some

\* the texts of the tokens yielded
C23_Texts == [i \in 1..(Len(yielded) - 1) |-> yielded[i].val.text]

\* C23: the tokens the tokenizer yields for a text are, in source order,
\* exactly its pieces; none is empty and none holds whitespace.
C23_TokensArePieces ==
    /\ \A i \in 1..Len(yielded) :
          yielded[i].some =>
              /\ yielded[i].val.text # << >>
              /\ \A j \in 1..Len(yielded[i].val.text) : ~is_whitespace(yielded[i].val.text[j])
    /\ C23_Exhausted => C23_Texts = C23_Pieces(iterator.text)

----------------------------------------------------------------------------
(* C24 *)

\* a blob of terminated statements: names, whitespace and ';', nothing but
\* whitespace after the last ';'
C24_Terminated(text) ==
    /\ \A i \in 1..Len(text) : text[i] \notin SelfBreaking
    /\ \A i \in 1..Len(text) :
          ~is_whitespace(text[i]) => \E j \in i..Len(text) : text[j] = ";"

RECURSIVE C24_Split(_)
\* the statements of a blob: for each ';' in source order, the names
\* between the ';' before it and it
C24_Split(text) ==
    LET at == find(text, << ";" >>) IN
    IF at < 0 THEN << >>
    ELSE << split_ascii_whitespace(SubSeq(text, 1, at)) >>
         \o C24_Split(SubSeq(text, at + 2, Len(text)))

\* the tokens of a text
C24_Tokens(text) == collect(TokenIterator_new(text))

\* what each statement of the stack compiles to
C24_Compiled == [i \in 1..Len(stack) |-> compile(stack[i])]

\* C24: parse() splits a blob of terminated statements into one statement
\* per ';', in source order, each compiling to the names before its ';'
\* ("A;A;" gives two statements equal to "A"), and it returns a Parse error
\* when the blob holds a token that is neither a symbol nor a terminator.
C24_StatementPerTerminator ==
    sResult # Err("none") =>
        LET text == iterator.text
            expected == C24_Split(text)
        IN /\ C24_Terminated(text) =>
                /\ sResult.ok
                /\ C24_Compiled = [i \in 1..Len(expected) |-> Ok(expected[i])]
           /\ (\E i \in 1..Len(C24_Tokens(text)) :
                    C24_Tokens(text)[i].kind \notin {"Symbol", "Terminator"})
                => sResult = Err("parse")

----------------------------------------------------------------------------
(* C25 *)

\* C25: the RefCell store holds one production per distinct head: no two
\* entries have the same head, and the entry of a head carries the bodies
\* of all its registrations.
C25_CellOnePerHead ==
    \A i, j \in 1..Len(cell) : cell[i].head = cell[j].head => i = j

----------------------------------------------------------------------------
(* C26 *)

\* a step taken while a derive call is inside its derivation leaves the
\* production store as the call found it
C26_Step ==
    \A t \in Threads : Deriving(t) => productions' = productions

\* C26: a derive call works on a fixed view of the production store: from
\* the step that acquires the store to the return of the call no step of
\* another thread changes the productions or their body lists, so every
\* iteration of the call sees the store as it was acquired and a concurrent
\* registration takes effect only after the call has returned.
C26_FixedView == [][C26_Step]_vars

\* Thread t1 is inside a derivation and has run an iteration; thread t2 is
\* idle and its registration of a second body for the head of the only
\* production cannot start.
C26_Witness ==
    /\ Deriving("t1")
    /\ call["t1"].i >= 1
    /\ pc["t2"] = "idle"
    /\ productions = << ProdGrow >>
    /\ ~ENABLED AddProductionWrite("t2", ProdErase)

----------------------------------------------------------------------------
(* C27 *)

\* thread t holds the lock of the token table
HoldsTokens(t) == tokLock["s1"].writer = t \/ t \in tokLock["s1"].readers

\* thread t holds the lock of the production store
HoldsProductions(t) == prodLock.writer = t \/ t \in prodLock.readers

\* thread t is inside a call
Running(t) == tpc[t] # "idle" \/ pc[t] # "idle"

\* No thread holds both locks; a lock is held only by a thread inside a
\* call, and a thread inside a call can take its next step whatever the
\* other threads hold.
C27_OneLockAtATime ==
    \A t \in Threads :
        /\ ~(HoldsTokens(t) /\ HoldsProductions(t))
        /\ (HoldsTokens(t) \/ HoldsProductions(t)) => Running(t)
        /\ Running(t) => ENABLED Continue(t)

\* the steps the call of thread t has left at most
C27_StepsLeft(t) ==
    CASE tpc[t] = "locked" -> 2
      [] tpc[t] = "create" -> 1
      [] pc[t] = "adding" -> 1
      [] pc[t] = "deriving" -> (call[t].n - call[t].i) + 1
      [] OTHER -> 0

\* a thread that acquires a lock held none before, and every step of a
\* call leaves the call fewer steps to take
C27_Step ==
    \A t \in Threads :
        /\ \/ HoldsTokens(t) = HoldsTokens(t)' /\ HoldsProductions(t) = HoldsProductions(t)'
           \/ ~HoldsTokens(t)' /\ ~HoldsProductions(t)'
           \/ ~HoldsTokens(t) /\ ~HoldsProductions(t)
        /\ Continue(t) => C27_StepsLeft(t)' < C27_StepsLeft(t)

\* C27: no operation of System holds the lock of the token table and the
\* lock of the production store at the same time or acquires a lock while
\* it holds one; with no poisoned lock, in every interleaving of two
\* threads a call that has started can always take its next step, whatever
\* the other thread holds, and each step brings it nearer to its return:
\* no state is a deadlock and every call runs to completion.
C27_NoDeadlock ==
    /\ []C27_OneLockAtATime
    /\ [][C27_Step]_vars

\* Thread t1 holds the write lock of the production store inside
\* add_production while thread t2 holds the write lock of the token table
\* inside add_token.
C27_Witness ==
    /\ pc["t1"] = "adding" /\ prodLock.writer = "t1"
    /\ tpc["t2"] = "create" /\ tokLock["s1"].writer = "t2"

----------------------------------------------------------------------------
(* C28 *)

\* C28: matches returns false, and does not panic, whenever the index is
\* not a position of the sequence (index >= length, every index on the
\* empty sequence included), for every head.
C28_OutOfRangeIsFalse ==
    (mResult # "none" /\ mIndex >= Len(mString)) => mResult = "false"

----------------------------------------------------------------------------
(* C29 *)

\* C29: every production of the store has explicit chances that sum to at
\* most 1.0; a registration that would push the sum of a head above 1.0 is
\* rejected and leaves the store as it was.
C29_ChancesSumToOne ==
    \A k \in 1..Len(productions) : ExplicitTotal(productions[k].body) <= ChanceUnits

----------------------------------------------------------------------------
(* C30 *)

C30_Step ==
    (ParseProductionStep /\ ~pRet'.res.ok) =>
        /\ productions' = productions
        /\ tokens' = tokens
        /\ token_id' = token_id

\* C30: a parse_production call that returns an error leaves the grammar as
\* it was: the production store, the registered names and the next code
\* to hand out are unchanged.
C30_ErrorLeavesGrammar == [][C30_Step]_vars

====
